---- MODULE Spec2Model ----
(***************************************************************************)
(* A model of getrel: release/asset resolution and installation engine.   *)
(*                                                                         *)
(* Several specifications share this module, among them:                   *)
(*   SpecPattern  the pattern synthesizer (identifying_pattern,            *)
(*                unique_substrings) applied to bounded inputs;            *)
(*   SpecFetch    the conditional fetch cache (fetch_if_newer);            *)
(*   Spec         a project: file system, Installed-File Registry and the  *)
(*                install actions / uninstall.                             *)
(* Strings that the code inspects character by character (asset names,     *)
(* tags, glob patterns) are sequences of one-character strings.            *)
(***************************************************************************)
EXTENDS Integers, Sequences, FiniteSets, TLC

VARIABLES
    \* --- pattern synthesizer (SpecPattern) ---
    selection,      \* identifying_pattern: the string to identify
    alternatives,   \* identifying_pattern: the list of alternatives
    version,        \* identifying_pattern: version argument (<<>> = None / empty)
    pattern,        \* result of identifying_pattern, or NoResult
    unique,         \* result of unique_substrings([selection] + alternatives), or NoResult
    \* --- conditional fetch cache (SpecFetch) ---
    settings,       \* the program settings: [fetch_delay, update_delay], in half days
    now,            \* the true (UTC) time, in units of half a day
    tz,             \* offset of the local wall clock from UTC, fixed for a run
    srv,            \* the upstream resource: [etag, lastmod (UTC), body] and the headers it sends
    cache,          \* the cache mapping handed to fetch_if_newer (a dict: key -> value)
    file,           \* the download target file: Absent or the body it holds
    download_file,  \* TRUE: an asset's cache (download_file given); FALSE: metadata (None)
    last,           \* record of the latest fetch_if_newer call
    prev,           \* when and from what the call before it started, and whether it sent a request
    \* --- a project (Spec) ---
    fs,             \* the file system: location -> what is there
    installed_files,   \* the Installed-File Registry: state['installed_files'], a list of strings
    archive,        \* the member names of the asset archive, in archive order
    installed,      \* state['installed']: is a release recorded as installed
    op,             \* the latest operation on the project, its argument and its outcome
    \* --- releases and assets (SpecRelease) ---
    config,         \* the project configuration: [release: the rule, assets: the patterns]
    release_cache,  \* the cached release metadata: [mapping, data: the records]
    state,          \* the project state: [installed, candidate]
    result,         \* the latest operation on the releases and its outcome
    \* --- helper functions applied to bounded inputs (SpecCalls) ---
    call,           \* the function called and its arguments
    answer,         \* what the call returned or raised, or NoAnswer
    work,           \* an install in progress: its worklist (new_sources) and its history
    scope,          \* operations of two projects in one process: where each one is
    \* --- the life of a project (SpecLife) ---
    asset_cache,    \* the asset cache: the URL of an asset -> its fetch cache
    cwd,            \* the working directory of the process
    acted,          \* history: the tags of the releases whose asset actions have been run
    run             \* the latest operation on the project, its steps and its outcome

patternVars == <<selection, alternatives, version, pattern, unique>>
fetchVars == <<settings, now, tz, srv, cache, file, download_file, last, prev>>
projectVars == <<fs, installed_files, archive, installed, op>>
releaseVars == <<config, release_cache, state, result>>
callVars == <<call, answer, work, scope>>
lifeVars == <<asset_cache, cwd, acted, run>>

----------------------------------------------------------------------------
(* Bounds of the pattern synthesizer's inputs *)

MaxLen == 3
MaxAlts == 2
MaxVerLen == 2

\* characters of names; "v" doubles as the version prefix letter
Alphabet == {"a", "v"}
\* characters of version strings: "." is a non-word character (\W)
VersionAlphabet == Alphabet \cup {"."}
\* \w of Python's re: letters, digits, underscore
WordChars == {"a", "v"}

\* a result variable holds <<>> before the call and <<result>> after it
NoResult == <<>>

SeqsUpTo(S, lo, hi) == UNION {[1..n -> S] : n \in lo..hi}

Names == SeqsUpTo(Alphabet, 1, MaxLen)
Versions == SeqsUpTo(VersionAlphabet, 0, MaxVerLen)

Slice(s, start, length) == [k \in 1..length |-> s[start + k - 1]]

----------------------------------------------------------------------------
(* fnmatch.fnmatch(name, pat) on POSIX: '*' any run, '?' any character,    *)
(* every other character literal (no '[' occurs in the alphabets).         *)

RECURSIVE GlobFrom(_, _, _, _)
GlobFrom(s, p, i, j) ==
    IF j > Len(p) THEN i > Len(s)
    ELSE IF p[j] = "*" THEN \E k \in i..(Len(s) + 1) : GlobFrom(s, p, k, j + 1)
    ELSE IF p[j] = "?" THEN i <= Len(s) /\ GlobFrom(s, p, i + 1, j + 1)
    ELSE i <= Len(s) /\ s[i] = p[j] /\ GlobFrom(s, p, i + 1, j + 1)

fnmatch(name, pat) == GlobFrom(name, pat, 1, 1)

----------------------------------------------------------------------------
(* unique_substrings *)

\* the (string index, length, start) triples in the order the three loops visit them
RECURSIVE LoopTriples(_, _, _, _)
LoopTriples(strings, i, length, start) ==
    IF i > Len(strings) THEN <<>>
    ELSE IF length >= Len(strings[i]) THEN LoopTriples(strings, i + 1, 1, 1)
    ELSE IF start > Len(strings[i]) - length + 1 THEN LoopTriples(strings, i, length + 1, 1)
    ELSE <<[substr |-> Slice(strings[i], start, length), string |-> strings[i]]>>
         \o LoopTriples(strings, i, length, start + 1)

\* candidates: insertion-ordered dict substring -> owning string, or NoneStr when seen twice
NoneStr == <<"None">>

RECURSIVE Candidates(_, _, _)
Candidates(triples, k, cand) ==
    IF k > Len(triples) THEN cand
    ELSE LET t == triples[k]
             known == {n \in 1..Len(cand) : cand[n].substr = t.substr}
         IN  Candidates(triples, k + 1,
                 IF known # {}
                 THEN [n \in 1..Len(cand) |->
                          IF n \in known THEN [cand[n] EXCEPT !.string = NoneStr] ELSE cand[n]]
                 ELSE Append(cand, t))

RECURSIVE UniqueFrom(_, _, _)
UniqueFrom(cand, k, uniq) ==
    IF k > Len(cand) THEN uniq
    ELSE LET c == cand[k] IN
         UniqueFrom(cand, k + 1,
             IF c.string # NoneStr
                /\ (c.string \notin DOMAIN uniq \/ Len(uniq[c.string]) > Len(c.substr))
             THEN [s \in DOMAIN uniq \cup {c.string} |->
                      IF s = c.string THEN c.substr ELSE uniq[s]]
             ELSE uniq)

EmptyMap == [s \in {} |-> <<>>]

unique_substrings(strings) ==
    UniqueFrom(Candidates(LoopTriples(strings, 1, 1, 1), 1, <<>>), 1, EmptyMap)

----------------------------------------------------------------------------
(* mask_version: re.sub('[vV]?' + tail, '*', name), where tail is the      *)
(* version with every non-word character turned into the regex wildcard   *)
(* '.' and one leading 'v' removed.                                        *)

VersionTail(ver) ==
    LET subst == [k \in 1..Len(ver) |-> IF ver[k] \in WordChars THEN ver[k] ELSE "."]
    IN  IF subst[1] = "v" THEN Tail(subst) ELSE subst

TailAt(name, p, tail) ==
    /\ p + Len(tail) - 1 <= Len(name)
    /\ \A k \in 1..Len(tail) : tail[k] = "." \/ name[p + k - 1] = tail[k]

\* length of the regex match starting at position p, or -1
MatchLen(name, p, tail) ==
    IF p <= Len(name) /\ name[p] = "v" /\ TailAt(name, p + 1, tail) THEN 1 + Len(tail)
    ELSE IF TailAt(name, p, tail) THEN Len(tail)
    ELSE -1

RECURSIVE ReSubFrom(_, _, _)
ReSubFrom(name, p, tail) ==
    LET m == MatchLen(name, p, tail) IN
    IF p > Len(name) THEN (IF m = 0 THEN <<"*">> ELSE <<>>)
    ELSE IF m > 0 THEN <<"*">> \o ReSubFrom(name, p + m, tail)
    ELSE IF m = 0 THEN <<"*", name[p]>> \o ReSubFrom(name, p + 1, tail)
    ELSE <<name[p]>> \o ReSubFrom(name, p + 1, tail)

mask_version(name, ver) == ReSubFrom(name, 1, VersionTail(ver))

----------------------------------------------------------------------------
(* difflib.SequenceMatcher(a, b).get_matching_blocks(): the positions of a *)
(* covered by a matching block.                                            *)

\* length of the common run of a from i and b from j inside the windows
RECURSIVE RunLen(_, _, _, _, _, _)
RunLen(a, b, i, j, ahi, bhi) ==
    IF i < ahi /\ j < bhi /\ a[i] = b[j] THEN 1 + RunLen(a, b, i + 1, j + 1, ahi, bhi) ELSE 0

\* find_longest_match on a[alo..ahi) and b[blo..bhi): longest, then earliest in a, then in b
find_longest_match(a, b, alo, ahi, blo, bhi) ==
    LET starts == (alo..(ahi - 1)) \X (blo..(bhi - 1))
        best == IF starts = {} THEN 0
                ELSE CHOOSE k \in 0..(ahi - alo) :
                        /\ \E st \in starts : RunLen(a, b, st[1], st[2], ahi, bhi) = k
                        /\ \A st \in starts : RunLen(a, b, st[1], st[2], ahi, bhi) <= k
    IN  IF best = 0 THEN [i |-> alo, j |-> blo, size |-> 0]
        ELSE LET winners == {st \in starts : RunLen(a, b, st[1], st[2], ahi, bhi) = best}
                 i0 == CHOOSE i \in {st[1] : st \in winners} :
                          \A st \in winners : i <= st[1]
                 j0 == CHOOSE j \in {st[2] : st \in {w \in winners : w[1] = i0}} :
                          \A st \in {w \in winners : w[1] = i0} : j <= st[2]
             IN  [i |-> i0, j |-> j0, size |-> best]

RECURSIVE MatchingIdx(_, _, _, _, _, _)
MatchingIdx(a, b, alo, ahi, blo, bhi) ==
    LET m == find_longest_match(a, b, alo, ahi, blo, bhi) IN
    IF m.size = 0 THEN {}
    ELSE (m.i..(m.i + m.size - 1))
         \cup (IF alo < m.i /\ blo < m.j
               THEN MatchingIdx(a, b, alo, m.i, blo, m.j) ELSE {})
         \cup (IF m.i + m.size < ahi /\ m.j + m.size < bhi
               THEN MatchingIdx(a, b, m.i + m.size, ahi, m.j + m.size, bhi) ELSE {})

get_matching_idx(a, b) == MatchingIdx(a, b, 1, Len(a) + 1, 1, Len(b) + 1)

----------------------------------------------------------------------------
(* identifying_pattern *)

SeqToSet(s) == {s[k] : k \in 1..Len(s)}

\* position (1-based) of the first occurrence of sub in s
IndexOf(s, sub) ==
    CHOOSE p \in 1..(Len(s) - Len(sub) + 1) :
        /\ Slice(s, p, Len(sub)) = sub
        /\ \A q \in 1..(p - 1) : Slice(s, q, Len(sub)) # sub

check_pattern(sel, alts, pat) ==
    /\ fnmatch(sel, pat)
    /\ \A a \in SeqToSet(alts) : ~fnmatch(a, pat)

MinimalPattern(sel, substring) ==
    LET pos == IndexOf(sel, substring) IN
    (IF pos = 1 THEN <<"*">> ELSE <<>>)
    \o substring
    \o (IF (pos - 1) + Len(substring) < Len(sel) THEN <<"*">> ELSE <<>>)

RECURSIVE PatternParts(_, _, _)
PatternParts(sel, common, i) ==
    IF i > Len(sel) THEN <<>>
    ELSE (IF i \in common
          THEN (IF (i - 1) \notin common THEN <<"*">> ELSE <<>>)
          ELSE <<sel[i]>>)
         \o PatternParts(sel, common, i + 1)

CommonIdx(sel, alts) ==
    {i \in 1..Len(sel) : \A a \in SeqToSet(alts) : i \in get_matching_idx(sel, a)}

identifying_pattern(alts0, sel, ver, avoid_minimal) ==
    LET alts == SelectSeq(alts0, LAMBDA a : a # sel)
        versionless == mask_version(sel, ver)
        uniq == unique_substrings(<<sel>> \o alts)
    IN  IF ver # <<>> /\ check_pattern(sel, alts, versionless)
        THEN [raised |-> FALSE, pattern |-> versionless, strategy |-> "version"]
        ELSE IF ~avoid_minimal /\ sel \in DOMAIN uniq
        THEN [raised |-> FALSE, pattern |-> MinimalPattern(sel, uniq[sel]),
              strategy |-> "minimal"]
        ELSE [raised |-> FALSE, pattern |-> PatternParts(sel, CommonIdx(sel, alts), 1),
              strategy |-> "common"]

----------------------------------------------------------------------------
(* fetch_if_newer *)

\* the default of settings.fetch_delay and settings.update_delay: one day = 2 half days
DefaultDelay == 2

\* the settings file may set either delay; here update_delay keeps its default and
\* fetch_delay is the default or shorter
SettingsChoices == {[fetch_delay |-> f, update_delay |-> DefaultDelay] : f \in 1..DefaultDelay}

MaxTime == 2     \* the clock stops here
MaxTz == 1       \* local offsets -MaxTz..MaxTz (half days: UTC-12 .. UTC+12)
MaxVer == 2      \* versions the upstream resource goes through

\* an optional value is Absent or Some(v)
Absent == <<>>
Some(v) == <<v>>

\* dict assignment d[k] = v
Put(d, k, v) == [x \in DOMAIN d \cup {k} |-> IF x = k THEN v ELSE d[x]]
\* d.get(k)
Get(d, k) == IF k \in DOMAIN d THEN Some(d[k]) ELSE Absent

EmptyCache == [k \in {} |-> 0]

\* datetime.now(): the naive local wall-clock time
LocalNow(utc, offset) == utc + offset

\* an HTTP date names a UTC instant: "<t> GMT"
HttpDate(t) == [gmt |-> t]
\* parse_http_date: datetime(*parsedate(d)[:6]) keeps the wall-clock fields and drops the zone
parse_http_date(d) == d.gmt

\* utils.py:146-150, the minimum inter-request interval
FetchDelayThrottle(c, localNow) ==
    "last-request" \in DOMAIN c /\ localNow - c["last-request"] <= settings.fetch_delay

\* utils.py:152-156, the minimum freshness interval
UpdateDelayThrottle(c, localNow) ==
    "Last-Modified" \in DOMAIN c /\ localNow - parse_http_date(c["Last-Modified"]) <= settings.update_delay

NoRequest == [sent |-> FALSE, INM |-> Absent, IMS |-> Absent]

\* utils.py:165-173, the revalidation headers of the request
RequestHeaders(c, download, fileExists) ==
    IF ~download \/ fileExists
    THEN [sent |-> TRUE, INM |-> Get(c, "ETag"), IMS |-> Get(c, "Last-Modified")]
    ELSE [sent |-> TRUE, INM |-> Absent, IMS |-> Absent]

\* What the upstream server may answer to a request: a connection failure (no
\* response), an error status (4xx, 5xx), a 3xx status that requests does not
\* follow (300 Multiple Choices, with a notice as its body), 304 when the
\* validators of the request match the resource, and otherwise 200 with the body
\* and the validator headers this server sends (ETag, Last-Modified, both or
\* neither).
NoticeBody == 0
Validates(req, resource) ==
    \/ req.INM # Absent /\ req.INM = Some(resource.etag)
    \/ req.INM = Absent /\ req.IMS # Absent /\ resource.lastmod <= req.IMS[1].gmt

Responses(req, resource) ==
    {[status |-> "none", etag |-> Absent, lastmod |-> Absent, body |-> Absent],
     [status |-> "error", etag |-> Absent, lastmod |-> Absent, body |-> Absent],
     [status |-> "300", etag |-> Absent, lastmod |-> Absent, body |-> Some(NoticeBody)]}
    \cup (IF Validates(req, resource)
          THEN {[status |-> "304", etag |-> Absent, lastmod |-> Absent, body |-> Absent]}
          ELSE {[status |-> "200",
                 etag |-> IF resource.sendsETag THEN Some(resource.etag) ELSE Absent,
                 lastmod |-> IF resource.sendsLastModified
                             THEN Some(HttpDate(resource.lastmod)) ELSE Absent,
                 body |-> Some(resource.body)]})

\* utils.py:187-190
StoreValidators(c, resp) ==
    LET c1 == IF resp.etag # Absent THEN Put(c, "ETag", resp.etag[1]) ELSE c
    IN  IF resp.lastmod # Absent THEN Put(c1, "Last-Modified", resp.lastmod[1]) ELSE c1

\* mutant: last-request recorded only once the status checks have passed
RecordRequestAfterStatusCheck(c, resp, localNow) ==
    IF resp.status = "200" THEN Put(c, "last-request", localNow) ELSE c

\* utils.py:174-175: the request is sent, and last-request is recorded when
\* requests.get comes back with a response
RecordRequest(c, resp, localNow) ==
    IF resp.status = "none" THEN c ELSE Put(c, "last-request", localNow)

\* fetch_if_newer(url, cache, download_file=...): the value returned (or the
\* exception raised), the cache and the download file after the call, and the
\* request it sent. resp is the server's answer should a request be sent.
\* response.raise_for_status() (utils.py:180) raises for 4xx and 5xx only, so
\* every other status that is not 304 goes on as a full response.
fetch_if_newer(c, download, f, localNow, resp) ==
    IF FetchDelayThrottle(c, localNow)
    THEN [ret |-> "False", path |-> "fetch_delay", cache |-> c, file |-> f,
          req |-> NoRequest, status |-> "none"]
    ELSE IF UpdateDelayThrottle(c, localNow)
    THEN [ret |-> "False", path |-> "update_delay", cache |-> c, file |-> f,
          req |-> NoRequest, status |-> "none"]
    ELSE LET req == RequestHeaders(c, download, f # Absent)
             c1 == RecordRequest(c, resp, localNow)
         IN  CASE resp.status = "none" ->
                    [ret |-> "ConnectionError", path |-> "request", cache |-> c1, file |-> f,
                     req |-> req, status |-> resp.status]
               [] resp.status = "304" ->
                    [ret |-> "False", path |-> "request", cache |-> c1, file |-> f,
                     req |-> req, status |-> resp.status]
               [] resp.status = "error" ->
                    [ret |-> "HTTPError", path |-> "request", cache |-> c1, file |-> f,
                     req |-> req, status |-> resp.status]
               [] resp.status \in {"200", "300"} ->
                    [ret |-> "True", path |-> "request",
                     cache |-> IF download THEN StoreValidators(c1, resp)
                               ELSE Put(StoreValidators(c1, resp), "data", resp.body[1]),
                     file |-> IF download THEN resp.body ELSE f,
                     req |-> req, status |-> resp.status]

\* last: seq flips at every call, so that a step is a call iff it changes last.seq;
\* empty: the call started from the empty cache; elapsed: time has passed since the call.
\* prev: the same of the call before, with immediate: the latest call followed it
\* with no time in between.
NoCall == [seq |-> 0, ret |-> "none", path |-> "none", req |-> NoRequest, status |-> "none",
           empty |-> FALSE, elapsed |-> FALSE]
NoPrev == [called |-> FALSE, immediate |-> FALSE, empty |-> FALSE, sent |-> FALSE]

FetchInputs ==
    /\ settings \in SettingsChoices
    /\ now = 0
    /\ tz \in (0 - MaxTz)..MaxTz
    /\ srv \in [etag : {1}, lastmod : {0}, body : {1},
                 sendsETag : BOOLEAN, sendsLastModified : BOOLEAN]
    /\ cache = EmptyCache
    /\ file = Absent
    /\ download_file \in BOOLEAN
    /\ last = NoCall
    /\ prev = NoPrev

Tick ==
    /\ now < MaxTime
    /\ now' = now + 1
    /\ last' = [last EXCEPT !.elapsed = (last.ret # "none")]
    /\ UNCHANGED <<settings, tz, srv, cache, file, download_file, prev>>
    /\ UNCHANGED <<patternVars, projectVars, releaseVars, callVars, lifeVars>>

\* upstream publishes a new version of the resource
Publish ==
    /\ srv.etag < MaxVer
    /\ srv' = [srv EXCEPT !.etag = srv.etag + 1, !.lastmod = now, !.body = srv.body + 1]
    /\ UNCHANGED <<settings, now, tz, cache, file, download_file, last, prev>>
    /\ UNCHANGED <<patternVars, projectVars, releaseVars, callVars, lifeVars>>

\* the download target disappears (uninstall, or the user removes it)
RemoveFile ==
    /\ file # Absent
    /\ file' = Absent
    /\ download_file
    /\ UNCHANGED <<settings, now, tz, srv, cache, download_file, last, prev>>
    /\ UNCHANGED <<patternVars, projectVars, releaseVars, callVars, lifeVars>>

Fetch ==
    \E resp \in Responses(RequestHeaders(cache, download_file, file # Absent), srv) :
        LET r == fetch_if_newer(cache, download_file, file, LocalNow(now, tz), resp) IN
        /\ cache' = r.cache
        /\ file' = r.file
        /\ last' = [seq |-> 1 - last.seq, ret |-> r.ret, path |-> r.path, req |-> r.req,
                    status |-> r.status, empty |-> cache = EmptyCache, elapsed |-> FALSE]
        /\ prev' = IF last.ret = "none" THEN NoPrev
                    ELSE [called |-> TRUE, immediate |-> ~last.elapsed,
                          empty |-> last.empty, sent |-> last.req.sent]
        /\ UNCHANGED <<settings, now, tz, srv, download_file>>
        /\ UNCHANGED <<patternVars, projectVars, releaseVars, callVars, lifeVars>>

NextFetch == Tick \/ Publish \/ RemoveFile \/ Fetch

----------------------------------------------------------------------------
(* A project: paths and the file system                                    *)
(*                                                                         *)
(* A path is the sequence of its parts, as pathlib's Path.parts gives      *)
(* them: an absolute path starts with "/".  pathlib compares and measures  *)
(* paths lexically and keeps ".." parts; the operating system resolves     *)
(* them when the path is used.  The project directory is a real directory  *)
(* (no part of its path is a symbolic link).                               *)

\* config.project_directory(name), and the state directory '.getrel' in it
PD == <<"/", "pd">>
StateDir == PD \o <<".getrel">>
StateFile == StateDir \o <<"state.json">>
\* GithubAsset.source: the project directory / the asset's name
AssetFile == PD \o <<"t.tgz">>
\* what the archive may hold: a directory, a file in it, a file in a subdirectory
UnpackedDir == PD \o <<"t">>
Tool == UnpackedDir \o <<"tool">>
SubDir == UnpackedDir \o <<"c">>
SubTool == SubDir \o <<"x">>
\* a file somebody else puts into the project directory
Notes == PD \o <<"notes">>
\* the source of a second asset, a text file
TextFile == PD \o <<"n.txt">>
\* outside the project directory: where links go, and another program's directory
BinDir == <<"/", "bin">>
LinkPath == BinDir \o <<"tool">>
OtherDir == <<"/", "x">>
OtherFile == OtherDir \o <<"u.log">>

\* every location of the file system, in the order a directory listing gives them
NodeOrder ==
    << <<"/">>, PD, StateDir, StateFile, AssetFile, UnpackedDir, Tool, SubDir, SubTool,
       Notes, TextFile, BinDir, LinkPath, OtherDir, OtherFile >>
Nodes == SeqToSet(NodeOrder)

\* what is at a location; exec: the file has been made executable (chmod 0o755)
Missing == [kind |-> "none", target |-> <<>>, exec |-> FALSE]
RegularFile == [kind |-> "file", target |-> <<>>, exec |-> FALSE]
Directory == [kind |-> "dir", target |-> <<>>, exec |-> FALSE]
Symlink(to) == [kind |-> "link", target |-> to, exec |-> FALSE]

\* pathlib, lexical
parent(p) == SubSeq(p, 1, Len(p) - 1)
is_relative_to(p, base) == Len(p) >= Len(base) /\ SubSeq(p, 1, Len(base)) = base
relative_to(p, base) == SubSeq(p, Len(base) + 1, Len(p))
is_absolute(p) == p # <<>> /\ p[1] = "/"

\* the location the operating system finds for a path: ".." steps to the parent
RECURSIVE ResolveDots(_, _)
ResolveDots(done, rest) ==
    IF rest = <<>> THEN done
    ELSE IF Head(rest) = ".."
    THEN ResolveDots(IF Len(done) > 1 THEN parent(done) ELSE done, Tail(rest))
    ELSE ResolveDots(Append(done, Head(rest)), Tail(rest))

Loc(p) == IF p \in Nodes THEN p ELSE ResolveDots(<<>>, p)

Stat(f, p) == IF Loc(p) \in Nodes THEN f[Loc(p)] ELSE Missing

\* Path.is_symlink, Path.exists, Path.is_dir: the last two follow a symbolic link
is_symlink(f, p) == Stat(f, p).kind = "link"
exists(f, p) ==
    \/ Stat(f, p).kind \in {"file", "dir"}
    \/ Stat(f, p).kind = "link" /\ f[Stat(f, p).target].kind \in {"file", "dir"}
is_dir(f, p) ==
    \/ Stat(f, p).kind = "dir"
    \/ Stat(f, p).kind = "link" /\ f[Stat(f, p).target].kind = "dir"

Children(f, n) == {c \in Nodes : Len(c) = Len(n) + 1 /\ parent(c) = n /\ f[c].kind # "none"}

Remove(f, p) == [f EXCEPT ![Loc(p)] = Missing]

\* Path.rmdir: OSError unless p is a directory itself (not a link to one) and empty
rmdir(f, p) ==
    IF Stat(f, p).kind = "dir" /\ Children(f, Loc(p)) = {}
    THEN [ok |-> TRUE, fs |-> Remove(f, p)]
    ELSE [ok |-> FALSE, fs |-> f]

\* Path.unlink: removes a file or a symbolic link, OSError otherwise
unlink(f, p) ==
    IF Stat(f, p).kind \in {"file", "link"}
    THEN [ok |-> TRUE, fs |-> Remove(f, p)]
    ELSE [ok |-> FALSE, fs |-> f]

\* sorted(paths, key=lambda p: len(p.parts), reverse=True): the deepest paths first,
\* paths of equal depth in the order they had
\* mutant: the batch in the order it was collected
Unsorted(paths) == paths

RECURSIVE SortedDeepestFirst(_)
SortedDeepestFirst(paths) ==
    IF paths = <<>> THEN <<>>
    ELSE LET deepest == CHOOSE d \in {Len(paths[k]) : k \in 1..Len(paths)} :
                            \A k \in 1..Len(paths) : Len(paths[k]) <= d
         IN  SelectSeq(paths, LAMBDA p : Len(p) = deepest)
             \o SortedDeepestFirst(SelectSeq(paths, LAMBDA p : Len(p) # deepest))

\* the elements of a set of paths as a list, in directory-listing order
Listed(paths) ==
    LET known == SelectSeq(NodeOrder, LAMBDA n : \E p \in paths : Loc(p) = n)
    IN  [k \in 1..Len(known) |-> CHOOSE p \in paths : Loc(p) = known[k]]

----------------------------------------------------------------------------
(* A project: the Installed-File Registry *)

\* GitHubProject.resolve_path: Path(orig).absolute() inside the project directory
resolve_path(orig) == IF is_absolute(orig) THEN orig ELSE PD \o orig

\* GitHubProject.project_relative_fspath: relative to the project directory when
\* the path lies (lexically) in it, absolute otherwise
project_relative_fspath(orig) ==
    IF is_relative_to(resolve_path(orig), PD)
    THEN relative_to(resolve_path(orig), PD)
    ELSE resolve_path(orig)

InList(e, list) == \E k \in 1..Len(list) : list[k] = e

\* mutant: the entry is appended without looking for it in the list
AppendAlways(list, e) == Append(list, e)

\* project.py:488-489: if file not in file_list: file_list.append(file)
AppendIfNew(list, e) == IF InList(e, list) THEN list ELSE Append(list, e)

\* register_installed_file(*files)
RECURSIVE register_installed_file(_, _)
register_installed_file(list, files) ==
    IF files = <<>> THEN list
    ELSE register_installed_file(AppendIfNew(list, project_relative_fspath(Head(files))),
                                 Tail(files))

\* list.remove(e): drops the first occurrence of e, ValueError when there is none
ListRemove(list, e) ==
    IF InList(e, list)
    THEN LET k == CHOOSE i \in 1..Len(list) : list[i] = e /\ \A j \in 1..(i - 1) : list[j] # e
         IN  [raised |-> FALSE, list |-> SubSeq(list, 1, k - 1) \o SubSeq(list, k + 1, Len(list))]
    ELSE [raised |-> TRUE, list |-> list]

\* mutant: the entry is removed without looking for it in the list
RemoveUnchecked(list, path) == ListRemove(list, project_relative_fspath(path))

\* unregister_installed_file(path): the list afterwards, and whether the call raised
unregister_installed_file(list, path) ==
    IF InList(project_relative_fspath(path), list)
    THEN ListRemove(list, project_relative_fspath(path))
    ELSE [raised |-> FALSE, list |-> list]

\* get_installed(): the paths of the ProjectFiles it returns. The registered ones
\* come first; every other non-directory below the project directory that is not
\* in the state directory follows, whatever include_unknown says.
get_installed(list, f) ==
    LET project_dir_files ==
            {project_relative_fspath(p) :
                p \in {n \in Nodes : /\ is_relative_to(n, PD) /\ n # PD
                                     /\ f[n].kind # "none"
                                     /\ ~(is_dir(f, n) \/ is_relative_to(n, StateDir))}}
        unknown_files == project_dir_files \ SeqToSet(list)
    IN  [k \in 1..Len(list) |-> resolve_path(list[k])]
        \o Listed({resolve_path(e) : e \in unknown_files})

\* ProjectFile.asset: the path is the source of a configured asset
IsAsset(path) == path \in {AssetFile, TextFile}

\* the loop of uninstall over the sorted files; st = [fs, list, parents]
RECURSIVE UninstallFiles(_, _, _)
UninstallFiles(files, keep_assets, st) ==
    IF files = <<>> THEN st
    ELSE LET path == Head(files)
             removed == IF is_dir(st.fs, path) THEN rmdir(st.fs, path)
                        ELSE IF is_symlink(st.fs, path) \/ exists(st.fs, path)
                        THEN unlink(st.fs, path)
                        ELSE [ok |-> TRUE, fs |-> st.fs]
         IN  UninstallFiles(Tail(files), keep_assets,
                 IF keep_assets /\ IsAsset(path) THEN st
                 ELSE [fs |-> removed.fs,
                       list |-> IF removed.ok
                                THEN unregister_installed_file(st.list, path).list
                                ELSE st.list,
                       parents |-> IF is_relative_to(parent(path), PD)
                                   THEN st.parents \cup {parent(path)}
                                   ELSE st.parents])

\* project.py:532-538: the directories that held a file are removed when empty,
\* deepest first, never the project directory itself
RECURSIVE CleanupParents(_, _)
CleanupParents(f, parents) ==
    IF parents = {} THEN f
    ELSE LET deepest == {p \in parents : \A q \in parents : Len(q) <= Len(p)}
             gone == {Loc(p) :
                         p \in {q \in deepest : exists(f, q) /\ q # PD /\ rmdir(f, q).ok}}
         IN  CleanupParents([n \in Nodes |-> IF n \in gone THEN Missing ELSE f[n]],
                            parents \ deepest)

\* project.py:513: the files of the project in the order uninstall visits them
sorted_installed(list, f) == SortedDeepestFirst(get_installed(list, f))

\* uninstall(keep_assets): the file system and the registry afterwards
uninstall(list, f, keep_assets) ==
    LET st == UninstallFiles(sorted_installed(list, f), keep_assets,
                             [fs |-> f, list |-> list, parents |-> {}])
    IN  [fs |-> CleanupParents(st.fs, st.parents), list |-> st.list]

----------------------------------------------------------------------------
(* A project: the install actions *)

\* the names in the directory at location n
ChildNames(f, n) == {c[Len(c)] : c \in Children(f, n)}

\* glob: the existing paths prefix/pat, where the pattern part "*" stands for any
\* name, "**" for any chain of directories, the empty one too, and every other
\* part, ".." too, for itself
RECURSIVE GlobPaths(_, _, _)
GlobPaths(f, prefix, pat) ==
    IF pat = <<>> THEN (IF Stat(f, prefix).kind # "none" THEN {prefix} ELSE {})
    ELSE IF Head(pat) = "**"
    THEN GlobPaths(f, prefix, Tail(pat))
         \cup UNION {GlobPaths(f, Append(prefix, name), pat) :
                        name \in {n \in ChildNames(f, Loc(prefix)) :
                                     is_dir(f, Append(prefix, n))}}
    ELSE IF Head(pat) = "*"
    THEN UNION {GlobPaths(f, Append(prefix, name), Tail(pat)) :
                    name \in ChildNames(f, Loc(prefix))}
    ELSE GlobPaths(f, Append(prefix, Head(pat)), Tail(pat))

\* Installable._expand_arg: an absolute pattern is globbed as it is, a relative
\* one below the project directory
expand_arg(f, arg) ==
    IF is_absolute(arg) THEN GlobPaths(f, <<"/">>, Tail(arg)) ELSE GlobPaths(f, PD, arg)

\* c in self.project.installed_files: c is a Path and the list holds strings, and a
\* Path equals no string
PathInList(c, list) == FALSE

\* the loop of delete over the safe candidates; st = [fs, list]
RECURSIVE DeleteCandidates(_, _)
DeleteCandidates(candidates, st) ==
    IF candidates = <<>> THEN st
    ELSE LET removed == IF is_dir(st.fs, Head(candidates))
                        THEN rmdir(st.fs, Head(candidates))
                        ELSE unlink(st.fs, Head(candidates))
         IN  DeleteCandidates(Tail(candidates),
                 IF removed.ok
                 THEN [fs |-> removed.fs,
                       list |-> unregister_installed_file(st.list, Head(candidates)).list]
                 ELSE st)

\* project.py:290-293: the candidates delete takes for safe, deepest first
safe_candidates(list, f, arg) ==
    SortedDeepestFirst(SelectSeq(Listed(expand_arg(f, arg)),
        LAMBDA c : is_relative_to(c, PD) \/ PathInList(c, list)))

\* Installable.delete(arg): the file system and the registry afterwards
delete(list, f, arg) ==
    DeleteCandidates(safe_candidates(list, f, arg), [fs |-> f, list |-> list])

\* the archives an asset may be: the names of their members, in archive order
Archives ==
    { << <<"t">>, <<"t", "tool">> >>,
      << <<"t", "tool">> >>,
      << <<"t">>, <<"t", "c", "x">> >> }

\* the members that are directory entries
IsDirMember(member) == member = <<"t">>

\* mkdir -p
RECURSIVE MakeDirs(_, _)
MakeDirs(f, p) ==
    IF Stat(f, p).kind # "none" THEN f ELSE [MakeDirs(f, parent(p)) EXCEPT ![p] = Directory]

\* tar.extractall(path, members)
RECURSIVE ExtractAll(_, _, _)
ExtractAll(f, path, members) ==
    IF members = <<>> THEN f
    ELSE ExtractAll(IF IsDirMember(Head(members))
                    THEN MakeDirs(f, path \o Head(members))
                    ELSE [MakeDirs(f, parent(path \o Head(members)))
                             EXCEPT ![path \o Head(members)] = RegularFile],
                    path, Tail(members))

\* Installable.unpack(): the members are extracted beside the source and registered
\* relative to the project directory
unpack(list, f, members) ==
    [fs |-> ExtractAll(f, parent(AssetFile), members),
     list |-> register_installed_file(list,
                  [k \in 1..Len(members) |-> relative_to(parent(AssetFile) \o members[k], PD)])]

\* project.py:206-207: a link path that names a directory means a link in it
LinkLocation(f, source, arg) ==
    IF is_dir(f, arg) THEN Append(arg, source[Len(source)]) ELSE arg

\* mutant: link replaces whatever is at the link path
LinkRefused(f, at) == FALSE

\* project.py:208-214: an existing symbolic link is replaced, anything else that
\* exists is left alone
Refused(f, at) == ~is_symlink(f, at) /\ exists(f, at)

\* Installable.link(arg): the file system and the registry afterwards, and the
\* new sources it returns
link(list, f, source, arg) ==
    LET at == LinkLocation(f, source, arg) IN
    IF Refused(f, at)
    THEN [fs |-> f, list |-> list, new |-> <<>>]
    ELSE [fs |-> [MakeDirs(f, parent(at)) EXCEPT ![at] = Symlink(source)],
          list |-> register_installed_file(list, <<at>>),
          new |-> <<at>>]

----------------------------------------------------------------------------
(* Spec: a project through install actions, registry calls and uninstall *)

NoOp == [name |-> "none", arg |-> <<>>, known |-> FALSE, raised |-> FALSE, new |-> <<>>]

\* the record of an operation; known: the argument's entry was in the registry
\* before the call. Every action records its own name, so a step that ends with
\* op.name = "delete" is a step of Delete.
\* new: the new sources the action returned
Done(name, arg, known, raised) ==
    [name |-> name, arg |-> arg, known |-> known, raised |-> raised, new |-> <<>>]

\* the file system with the project directory and its state, before anything
\* is downloaded
FreshFs ==
    [n \in Nodes |->
        IF n \in {<<"/">>, PD, StateDir, BinDir, OtherDir} THEN Directory
        ELSE IF n \in {StateFile, OtherFile} THEN RegularFile
        ELSE Missing]

InitProject ==
    /\ fs = FreshFs
    /\ installed_files = <<>>
    /\ archive \in Archives
    /\ installed = FALSE
    /\ op = NoOp

ProjectIdle ==
    /\ fs = [n \in Nodes |-> Missing]
    /\ installed_files = <<>>
    /\ archive = <<>>
    /\ installed = FALSE
    /\ op = NoOp

\* the paths handed to register_installed_file and unregister_installed_file: a
\* file of the project in project-relative and in absolute form, and a path outside
RegistryInputs == {relative_to(Tool, PD), Tool, LinkPath}

\* the arguments of delete: relative and absolute glob patterns
DeleteArgs ==
    { <<"t", "*">>, <<"..", "x", "*">>, <<"/", "bin", "*">>, <<"/", "x", "*">> }

\* and with the pattern for everything below the project directory, at any depth
RemoveArgs == DeleteArgs \cup { <<"**", "*">> }

\* the sources link is configured for, and where it puts the link: the link path
\* of the tool, or the path of another program's file
LinkSources == {Tool, UnpackedDir}
LinkArgs == {LinkPath, OtherFile}

\* GithubAsset.download with a changed asset: the file is written and registered
Download ==
    /\ fs' = [fs EXCEPT ![AssetFile] = RegularFile]
    /\ installed_files' = register_installed_file(installed_files, <<AssetFile>>)
    /\ op' = Done("download", <<>>, FALSE, FALSE)
    /\ UNCHANGED <<archive, installed>>
    /\ UNCHANGED <<patternVars, fetchVars, releaseVars, callVars, lifeVars>>

Unpack ==
    /\ fs[AssetFile].kind = "file"
    /\ LET r == unpack(installed_files, fs, archive) IN
           fs' = r.fs /\ installed_files' = r.list
    /\ op' = Done("unpack", <<>>, FALSE, FALSE)
    /\ UNCHANGED <<archive, installed>>
    /\ UNCHANGED <<patternVars, fetchVars, releaseVars, callVars, lifeVars>>

\* link on an unpacked source; the file system of the model has no place for a link
\* inside another link's target
Link ==
    \E source \in LinkSources :
        /\ fs[source].kind # "none"
        /\ LinkLocation(fs, source, LinkPath) \in Nodes
        /\ LET r == link(installed_files, fs, source, LinkPath) IN
               fs' = r.fs /\ installed_files' = r.list
        /\ op' = Done("link", <<>>, FALSE, FALSE)
        /\ UNCHANGED <<archive, installed>>
        /\ UNCHANGED <<patternVars, fetchVars, releaseVars, callVars, lifeVars>>

Delete ==
    \E arg \in DeleteArgs :
        /\ LET r == delete(installed_files, fs, arg) IN
               fs' = r.fs /\ installed_files' = r.list
        /\ op' = Done("delete", arg, FALSE, FALSE)
        /\ UNCHANGED <<archive, installed>>
        /\ UNCHANGED <<patternVars, fetchVars, releaseVars, callVars, lifeVars>>

\* GitHubProject.install, its last step: the release is recorded as installed
Stamp ==
    /\ fs[AssetFile].kind = "file"
    /\ installed' = TRUE
    /\ op' = Done("stamp", <<>>, FALSE, FALSE)
    /\ UNCHANGED <<fs, installed_files, archive>>
    /\ UNCHANGED <<patternVars, fetchVars, releaseVars, callVars, lifeVars>>

\* somebody else (the user, the installed program) writes a file of their own into
\* the project directory; nothing registers it
OtherWrites ==
    /\ fs[Notes].kind = "none"
    /\ fs' = [fs EXCEPT ![Notes] = RegularFile]
    /\ op' = Done("other", <<>>, FALSE, FALSE)
    /\ UNCHANGED <<installed_files, archive, installed>>
    /\ UNCHANGED <<patternVars, fetchVars, releaseVars, callVars, lifeVars>>

RegisterCall ==
    \E path \in RegistryInputs :
        /\ installed_files' = register_installed_file(installed_files, <<path>>)
        /\ op' = Done("register", path,
                      InList(project_relative_fspath(path), installed_files), FALSE)
        /\ UNCHANGED <<fs, archive, installed>>
        /\ UNCHANGED <<patternVars, fetchVars, releaseVars, callVars, lifeVars>>

UnregisterCall ==
    \E path \in RegistryInputs :
        LET r == unregister_installed_file(installed_files, path) IN
        /\ installed_files' = r.list
        /\ op' = Done("unregister", path,
                      InList(project_relative_fspath(path), installed_files), r.raised)
        /\ UNCHANGED <<fs, archive, installed>>
        /\ UNCHANGED <<patternVars, fetchVars, releaseVars, callVars, lifeVars>>

Uninstall ==
    \E keep_assets \in BOOLEAN :
        /\ LET r == uninstall(installed_files, fs, keep_assets) IN
               fs' = r.fs /\ installed_files' = r.list
        /\ installed' = FALSE
        /\ op' = Done("uninstall", IF keep_assets THEN <<"keep_assets">> ELSE <<>>,
                      FALSE, FALSE)
        /\ UNCHANGED archive
        /\ UNCHANGED <<patternVars, fetchVars, releaseVars, callVars, lifeVars>>

Next ==
    \/ Download \/ Unpack \/ Link \/ Delete \/ Stamp \/ OtherWrites
    \/ RegisterCall \/ UnregisterCall \/ Uninstall

\* the installed program writes a file of its own into a new subdirectory of
\* its directory; nothing registers it
ProgramWrites ==
    /\ fs[UnpackedDir].kind = "dir" /\ fs[SubDir].kind = "none"
    /\ fs' = [fs EXCEPT ![SubDir] = Directory, ![SubTool] = RegularFile]
    /\ op' = Done("program", <<>>, FALSE, FALSE)
    /\ UNCHANGED <<installed_files, archive, installed>>
    /\ UNCHANGED <<patternVars, fetchVars, releaseVars, callVars, lifeVars>>

\* a project through install actions, the program's own files, delete and uninstall
\* Installable.delete with any of the patterns, the recursive one too
DeleteAny ==
    \E arg \in RemoveArgs :
        /\ LET r == delete(installed_files, fs, arg) IN
               fs' = r.fs /\ installed_files' = r.list
        /\ op' = Done("delete", arg, FALSE, FALSE)
        /\ UNCHANGED <<archive, installed>>
        /\ UNCHANGED <<patternVars, fetchVars, releaseVars, callVars, lifeVars>>

NextRemove ==
    Download \/ Unpack \/ Link \/ Stamp \/ ProgramWrites \/ DeleteAny \/ Uninstall

----------------------------------------------------------------------------
(* A project: the action engine and install                                *)
(*                                                                         *)
(* The project of this part has one configured asset, t.tgz with the       *)
(* install spec 'unpack', and the install rule '*/tool' = 'bin'; its       *)
(* selected release holds that asset.                                      *)

\* mutant: delete comes before unpack
DeleteFirst == <<"delete", "unpack", "bin", "link", "record">>

\* Installable.ACTIONS (a reserved word here), in the order _actions_from_mapping runs them; the specs of
\* the model use the actions that take no argument for an asset, unpack and delete
Actions == <<"unpack", "bin", "link", "delete", "record">>

\* fnmatch(source, '*/tool') on the project-relative path of a new source: '*'
\* stands for any text, '/' included, so the rule matches every path below the
\* top level whose last part is 'tool'
InstallRuleMatches(source) == Len(source) >= 2 /\ source[Len(source)] = "tool"

\* Path.chmod(0o755)
chmod(f, p) == [f EXCEPT ![Loc(p)].exec = TRUE]

\* Installable.bin(None): the source is made executable and linked from
\* ~/.local/bin/<stem of the source>
bin(list, f, source) ==
    link(list, chmod(f, PD \o source), PD \o source, LinkPath)

\* the worklist of Installable.install (project.py:380-388) over the new sources:
\* a source in the project directory that matches the install rule gets the rule's
\* action; the links bin returns lie outside the project directory
RECURSIVE ApplyInstallRules(_, _)
ApplyInstallRules(new_sources, st) ==
    IF new_sources = <<>> THEN st
    ELSE ApplyInstallRules(Tail(new_sources),
             IF InstallRuleMatches(Head(new_sources))
             THEN LET r == bin(st.list, st.fs, Head(new_sources))
                  IN  [fs |-> r.fs, list |-> r.list]
             ELSE st)

\* the paths unpack returns: the members, relative to the project directory
Extracted(members) ==
    [k \in 1..Len(members) |-> relative_to(parent(AssetFile) \o members[k], PD)]

\* asset.install() for the asset with the spec 'unpack': tarfile.is_tarfile raises
\* FileNotFoundError when the source is not there
install_asset(list, f, members) ==
    IF Stat(f, AssetFile).kind = "none"
    THEN [fs |-> f, list |-> list, raised |-> TRUE]
    ELSE LET u == unpack(list, f, members)
             r == ApplyInstallRules(Extracted(members), [fs |-> u.fs, list |-> u.list])
         IN  [fs |-> r.fs, list |-> r.list, raised |-> FALSE]

\* GithubAsset.download: fetch_if_newer wrote the asset (changed) or did not
download(list, f, changed) ==
    IF changed
    THEN [fs |-> [f EXCEPT ![AssetFile] = RegularFile],
          list |-> register_installed_file(list, <<AssetFile>>)]
    ELSE [fs |-> f, list |-> list]

\* mutant: the actions run at every install
AlwaysInstall(needs_install, force, was_installed) == TRUE

\* project.py:746
NeedsInstall(needs_install, force, was_installed) ==
    needs_install \/ force \/ ~was_installed

\* GitHubProject.install(force): download, the actions unless nothing calls for
\* them, and the record of the installed release. ran: the actions were run.
install(list, f, members, was_installed, force, changed) ==
    LET d == download(list, f, changed) IN
    IF NeedsInstall(changed, force, was_installed)
    THEN LET a == install_asset(d.list, d.fs, members)
         IN  [fs |-> a.fs, list |-> a.list, raised |-> a.raised, ran |-> TRUE,
              installed |-> IF a.raised THEN was_installed ELSE TRUE]
    ELSE [fs |-> d.fs, list |-> d.list, raised |-> FALSE, ran |-> FALSE,
          installed |-> TRUE]

\* Installable.delete(None) on the asset: the source is the one candidate
delete_source(list, f) ==
    DeleteCandidates(SelectSeq(<<AssetFile>>, LAMBDA c : is_relative_to(c, PD)),
                     [fs |-> f, list |-> list])

\* one action of the asset; tarfile.is_tarfile raises FileNotFoundError when the
\* source of unpack is not there. ran: the actions that were called, in their order
run_action(action, st, members) ==
    IF action = "unpack"
    THEN IF Stat(st.fs, AssetFile).kind = "none"
         THEN [st EXCEPT !.raised = TRUE, !.ran = Append(st.ran, action)]
         ELSE LET u == unpack(st.list, st.fs, members)
              IN  [fs |-> u.fs, list |-> u.list, raised |-> FALSE,
                   ran |-> Append(st.ran, action)]
    ELSE IF action = "delete"
    THEN LET d == delete_source(st.list, st.fs)
         IN  [fs |-> d.fs, list |-> d.list, raised |-> FALSE,
              ran |-> Append(st.ran, action)]
    ELSE [st EXCEPT !.ran = Append(st.ran, action)]

\* _actions_from_mapping: the known actions among the keys, in the order of
\* Actions, until one raises
RECURSIVE actions_from_mapping(_, _, _, _)
actions_from_mapping(keys, k, st, members) ==
    IF k > Len(Actions) \/ st.raised THEN st
    ELSE actions_from_mapping(keys, k + 1,
             IF ~InList(Actions[k], keys) THEN st
             ELSE run_action(Actions[k], st, members),
             members)

\* Installable._run_actions(spec) for the asset: spec is a bare name, a list of
\* names or a mapping with the names as keys. A mapping without a known key is
\* taken for an action string: {spec: None} raises TypeError, a mapping being
\* unhashable.
run_actions(spec, list, f, members) ==
    IF spec.shape = "mapping" /\ ~\E k \in 1..Len(spec.names) : InList(spec.names[k], Actions)
    THEN [fs |-> f, list |-> list, raised |-> TRUE, ran |-> <<>>]
    ELSE actions_from_mapping(spec.names, 1,
             [fs |-> f, list |-> list, raised |-> FALSE, ran |-> <<>>], members)

\* action specs with an unknown action name ("foo"), and without
ActionSpecs ==
    {[shape |-> "bare", names |-> <<n>>] : n \in {"unpack", "foo"}}
    \cup {[shape |-> sh, names |-> ns] :
            sh \in {"list", "mapping"},
            ns \in {<<"unpack", "foo">>, <<"foo", "delete">>, <<"foo">>,
                    <<"unpack", "delete">>, <<"delete", "unpack">>}}
    \cup {[shape |-> "list", names |-> <<"delete", "unpack", "delete">>]}

Install ==
    \E force \in BOOLEAN, changed \in BOOLEAN :
        /\ LinkLocation(fs, Tool, LinkPath) \in Nodes
        /\ LET r == install(installed_files, fs, archive, installed, force, changed) IN
               /\ fs' = r.fs /\ installed_files' = r.list /\ installed' = r.installed
               /\ op' = [Done("install",
                              (IF force THEN <<"force">> ELSE <<>>)
                                  \o (IF changed THEN <<"changed">> ELSE <<>>),
                              r.ran, r.raised) EXCEPT !.new = <<>>]
        /\ UNCHANGED archive
        /\ UNCHANGED <<patternVars, fetchVars, releaseVars, callVars, lifeVars>>

\* the action engine on the downloaded asset
RunActions ==
    \E spec \in ActionSpecs :
        /\ fs[AssetFile].kind = "file"
        /\ \E r \in {run_actions(spec, installed_files, fs, archive)} :
               /\ fs' = r.fs /\ installed_files' = r.list
               /\ op' = Done("run_actions", <<spec.shape>> \o spec.names, FALSE, r.raised)
               /\ call' = [fn |-> "run_actions", spec |-> spec]
               /\ answer' = [fn |-> "run_actions", raised |-> r.raised,
                             value |-> Some(r.ran)]
               /\ UNCHANGED <<work, scope>>
        /\ UNCHANGED <<archive, installed>>
        /\ UNCHANGED <<patternVars, fetchVars, releaseVars, lifeVars>>

\* link on an unpacked source, with a link path that is free, a link, or the file
\* of another program
LinkTo ==
    \E source \in LinkSources, arg \in LinkArgs :
        /\ fs[source].kind # "none"
        /\ LinkLocation(fs, source, arg) \in Nodes
        /\ LET r == link(installed_files, fs, source, arg) IN
               /\ fs' = r.fs /\ installed_files' = r.list
               /\ op' = [Done("link", arg, Refused(fs, LinkLocation(fs, source, arg)), FALSE)
                            EXCEPT !.new = r.new]
        /\ UNCHANGED <<archive, installed>>
        /\ UNCHANGED <<patternVars, fetchVars, releaseVars, callVars, lifeVars>>

NextInstall == Install \/ RunActions \/ LinkTo \/ Uninstall

----------------------------------------------------------------------------
(* Releases and assets of a GitHub project                                 *)

MaxReleases == 2   \* release records in the cached metadata
MaxCreated == 2    \* creation times 1..MaxCreated
MaxAssets == 2     \* asset descriptors of a release, and configured asset patterns

\* the release rules 'latest' and 'pre'; every other rule is a glob pattern on the tag
Latest == <<"l", "a", "t", "e", "s", "t">>
Pre == <<"p", "r", "e">>
Rules == {Latest, Pre, <<"v", "*">>}
Tags == {<<"v">>, <<"a">>}

AssetNames == {<<"a">>, <<"v">>, <<"a", "v">>}
AssetPatterns == {<<"a", "*">>, <<"*">>, <<"v">>}

\* sequences of at most n elements of S, none of them twice (the keys of a
\* mapping, the asset names of a release)
DistinctSeqs(S, n) ==
    {q \in SeqsUpTo(S, 0, n) : \A i, j \in 1..Len(q) : i # j => q[i] # q[j]}

\* The release records of the upstream API. A release that is not a draft has
\* been published; a draft has no publication date (published_at is null)
\* unless it had been published before it was made a draft again. The drafts of
\* the model are not marked as prereleases.
Records(descs) ==
    {r \in [tag_name : Tags, created_at : 1..MaxCreated,
            published_at : {Absent} \cup {Some(c) : c \in 1..MaxCreated},
            draft : BOOLEAN, prerelease : BOOLEAN, assets : {descs}] :
        /\ r.published_at # Absent => r.published_at = Some(r.created_at)
        /\ ~r.draft => r.published_at # Absent
        /\ r.draft => ~r.prerelease}

\* sorted(releases, key=itemgetter('created_at'), reverse=True): newest first,
\* records of the same creation time in the order of the list (the sort is stable)
RECURSIVE SortedNewestFirst(_)
SortedNewestFirst(rs) ==
    IF rs = <<>> THEN <<>>
    ELSE LET init == SortedNewestFirst(SubSeq(rs, 1, Len(rs) - 1))
             r == rs[Len(rs)]
             k == Cardinality({i \in 1..Len(init) : init[i].created_at >= r.created_at})
         IN  SubSeq(init, 1, k) \o <<r>> \o SubSeq(init, k + 1, Len(init))

\* GitHubRelease(record): isoparse(record['published_at']) raises TypeError on null
Parses(r) == r.published_at # Absent

\* GitHubProject.releases: the cached data is empty, one record (a mapping, the
\* answer of .../releases/latest) or a list of records
releases(rc) ==
    IF rc.data = <<>> THEN [raised |-> FALSE, list |-> <<>>]
    ELSE LET sorted == IF rc.mapping THEN rc.data ELSE SortedNewestFirst(rc.data)
         IN  IF \A i \in 1..Len(sorted) : Parses(sorted[i])
             THEN [raised |-> FALSE, list |-> sorted]
             ELSE [raised |-> TRUE, list |-> <<>>]

\* the condition of the generator that select_release takes the first element of
Selectable(rule, r) ==
    IF rule = Latest THEN ~r.prerelease /\ ~r.draft
    ELSE IF rule = Pre THEN ~r.draft
    ELSE fnmatch(r.tag_name, rule) /\ ~r.draft

\* first(..., default=None)
select_release(cfg, rc) ==
    LET rs == releases(rc)
        idx == {i \in 1..Len(rs.list) : Selectable(cfg.release, rs.list[i])}
    IN  IF rs.raised THEN [raised |-> TRUE, release |-> Absent]
        ELSE IF idx = {} THEN [raised |-> FALSE, release |-> Absent]
        ELSE [raised |-> FALSE,
              release |-> Some(rs.list[CHOOSE i \in idx : \A j \in idx : i <= j])]

\* mutant: the pattern is bound to the last descriptor that matches it
LastMatch(descs, pat) ==
    CHOOSE i \in 1..Len(descs) :
        /\ fnmatch(descs[i], pat)
        /\ \A j \in 1..Len(descs) : fnmatch(descs[j], pat) => j <= i

\* matching_descs[0]: the first descriptor, in the order of the API, that the pattern matches
FirstMatch(descs, pat) ==
    CHOOSE i \in 1..Len(descs) :
        /\ fnmatch(descs[i], pat)
        /\ \A j \in 1..Len(descs) : fnmatch(descs[j], pat) => i <= j

\* the loop over config['assets'] (project.py:710-720): one GithubAsset per
\* pattern with a matching descriptor, a warning for a pattern without
RECURSIVE BindAssets(_, _)
BindAssets(patterns, descs) ==
    IF patterns = <<>> THEN <<>>
    ELSE LET pat == Head(patterns)
         IN  (IF \E i \in 1..Len(descs) : fnmatch(descs[i], pat)
              THEN <<[match |-> pat, name |-> descs[FirstMatch(descs, pat)]]>>
              ELSE <<>>) \o BindAssets(Tail(patterns), descs)

\* get_assets(release, configured=True); release is Absent (None) or Some(record)
get_assets(cfg, rc, release) ==
    LET sel == IF release = Absent THEN select_release(cfg, rc)
               ELSE [raised |-> FALSE, release |-> release]
    IN  IF sel.raised THEN [raised |-> TRUE, release |-> Absent, assets |-> <<>>]
        ELSE IF sel.release = Absent
        THEN [raised |-> FALSE, release |-> Absent, assets |-> <<>>]
        ELSE [raised |-> FALSE, release |-> sel.release,
              assets |-> BindAssets(cfg.assets, sel.release[1].assets)]

CachedRecords == {release_cache.data[i] : i \in 1..Len(release_cache.data)}

\* the result of an operation on the releases: the release it returned or worked
\* on, the bound assets it returned, and whether it raised
\* given: get_assets was handed a release; updated: the metadata fetch of update
\* returned Updated; ret: the value update returned
\* fetched: what the metadata fetch of update came to; at: the time of the call
NoResultYet == [name |-> "none", raised |-> FALSE, release |-> Absent, assets |-> <<>>,
                given |-> FALSE, updated |-> FALSE, ret |-> FALSE,
                fetched |-> "none", at |-> 0]

\* state['candidate'] != state.get('installed'): the candidate is the tag, a
\* string, and the installed release is None or the mapping release.todict()
\* left by install; a string equals neither
CandidateDiffers(candidate, installed_release) == TRUE

\* Release.todict()
todict(r) == [version |-> r.tag_name, date |-> r.published_at[1]]

\* GitHubProject.update() after its metadata fetch: the state afterwards and the
\* value returned
update(cfg, rc, st, updated) ==
    IF ~updated THEN [state |-> st, raised |-> FALSE, release |-> Absent, ret |-> FALSE]
    ELSE LET sel == select_release(cfg, rc) IN
         IF sel.raised
         THEN [state |-> st, raised |-> TRUE, release |-> Absent, ret |-> FALSE]
         ELSE IF sel.release = Absent
         THEN [state |-> [st EXCEPT !.candidate = Absent], raised |-> FALSE,
               release |-> Absent, ret |-> FALSE]
         ELSE [state |-> [st EXCEPT !.candidate = Some(sel.release[1].tag_name)],
               raised |-> FALSE, release |-> sel.release,
               ret |-> CandidateDiffers(sel.release[1].tag_name, st.installed)]

\* what the metadata fetch of update() comes to: fetch_if_newer returns True
\* (Updated), returns False after a 304 (NotModified) or without a request
\* (Throttled), or raises (HTTPError)
FetchOutcomes == {"Updated", "NotModified", "Throttled", "HTTPError"}

\* the times update() may be called at
UpdateTimes == {1, 2}

\* GitHubProject.update() called at the time at: the fetch (project.py:655), the
\* stamp state['updated'] = now (project.py:657) and the rest; an exception of the
\* fetch leaves update() at once
update_at(cfg, rc, st, outcome, at) ==
    IF outcome = "HTTPError"
    THEN [state |-> st, raised |-> TRUE, release |-> Absent, ret |-> FALSE]
    ELSE update(cfg, rc, [st EXCEPT !.updated = Some(at)], outcome = "Updated")

DefaultDescriptors == <<<<"a">>>>
DefaultAssets == <<<<"*">>>>

NoState == [installed |-> Absent, candidate |-> Absent, updated |-> Absent]

ReleaseInputs ==
    /\ result = NoResultYet
    /\ state = NoState
    /\ \/ /\ config \in [release : Rules, assets : {DefaultAssets}]
          /\ release_cache \in
                {[mapping |-> FALSE, data |-> d] :
                    d \in SeqsUpTo(Records(DefaultDescriptors), 0, MaxReleases)}
                \cup {[mapping |-> TRUE, data |-> <<r>>] : r \in Records(DefaultDescriptors)}
       \/ /\ config \in [release : {Latest}, assets : DistinctSeqs(AssetPatterns, MaxAssets)]
          /\ \E descs \in DistinctSeqs(AssetNames, MaxAssets), pr \in BOOLEAN :
                release_cache =
                    [mapping |-> TRUE,
                     data |-> <<[tag_name |-> <<"v">>, created_at |-> 1,
                                 published_at |-> Some(1), draft |-> FALSE,
                                 prerelease |-> pr, assets |-> descs]>>]

ReleaseIdle ==
    /\ config = [release |-> Latest, assets |-> <<>>]
    /\ release_cache = [mapping |-> FALSE, data |-> <<>>]
    /\ state = NoState
    /\ result = NoResultYet

\* select_release and get_assets change nothing, so one call of either tells all
SelectRelease ==
    /\ result.name = "none"
    /\ LET r == select_release(config, release_cache)
       IN  result' = [NoResultYet EXCEPT !.name = "select_release", !.raised = r.raised,
                                         !.release = r.release]
    /\ UNCHANGED <<config, release_cache, state>>
    /\ UNCHANGED <<patternVars, fetchVars, projectVars, callVars, lifeVars>>

GetAssets ==
    /\ result.name = "none"
    /\ \E release \in {Absent} \cup {Some(r) : r \in CachedRecords} :
          LET r == get_assets(config, release_cache, release)
          IN  result' = [NoResultYet EXCEPT !.name = "get_assets", !.raised = r.raised,
                                            !.release = r.release, !.assets = r.assets,
                                            !.given = release # Absent]
    /\ UNCHANGED <<config, release_cache, state>>
    /\ UNCHANGED <<patternVars, fetchVars, projectVars, callVars, lifeVars>>

\* update(): the metadata fetch returns Updated, with the release records the
\* cache holds afterwards, or NotModified, or is throttled, or fails
Update ==
    /\ result.name \in {"none", "install"}
    /\ \E outcome \in FetchOutcomes, at \in UpdateTimes :
          LET r == update_at(config, release_cache, state, outcome, at)
          IN  /\ state' = r.state
              /\ result' = [NoResultYet EXCEPT !.name = "update", !.raised = r.raised,
                                                !.release = r.release,
                                                !.updated = (outcome = "Updated"),
                                                !.ret = r.ret,
                                                !.fetched = outcome, !.at = at]
    /\ UNCHANGED <<config, release_cache>>
    /\ UNCHANGED <<patternVars, fetchVars, projectVars, callVars, lifeVars>>

\* the last step of install() (project.py:756-758): the selected release is
\* recorded as the installed one
RecordInstalled ==
    /\ result.name = "none"
    /\ LET sel == select_release(config, release_cache)
       IN  /\ ~sel.raised /\ sel.release # Absent
           /\ state' = [state EXCEPT !.installed = Some(todict(sel.release[1]))]
           /\ result' = [NoResultYet EXCEPT !.name = "install", !.release = sel.release]
    /\ UNCHANGED <<config, release_cache>>
    /\ UNCHANGED <<patternVars, fetchVars, projectVars, callVars, lifeVars>>

----------------------------------------------------------------------------
(* The life of a project: update, download, install and uninstall          *)
(*                                                                         *)
(* The project has release = 'latest', two configured assets, the archive  *)
(* t.tgz with the install spec 'unpack' and the text n.txt with the spec   *)
(* 'register' (what configure() gives an asset without actions), the       *)
(* install rule '*/tool' = 'bin' and a post-install script that creates no *)
(* files. Upstream publishes the releases v, vv, ...; each of them holds   *)
(* both assets, under URLs of its own.                                     *)

MaxUpstream == 2    \* the releases upstream publishes
MaxWaits == 1       \* how often the user lets the throttle intervals pass
MaxOps == 3         \* the operations on the project

TgzName == <<"t", ".", "t", "g", "z">>
TxtName == <<"n", ".", "t", "x", "t">>

LifeConfig ==
    [release |-> Latest,
     assets |-> << <<"*", ".", "t", "g", "z">>, <<"*", ".", "t", "x", "t">> >>]

\* the record of the k-th release in the answer of the API
Upstream(k) ==
    [tag_name |-> [i \in 1..k |-> "v"], created_at |-> k, published_at |-> Some(k),
     draft |-> FALSE, prerelease |-> FALSE, assets |-> <<TxtName, TgzName>>]

\* GithubAsset.source (project.py:857): the project directory / the asset's name
asset_source(name) == IF name = TgzName THEN AssetFile ELSE TextFile

\* asset_desc['url']
AssetUrl(release, name) == [tag |-> release.tag_name, name |-> name]

\* the server of the assets sends an ETag with every asset
AssetResource ==
    [etag |-> 1, lastmod |-> 0, body |-> 1, sendsETag |-> TRUE, sendsLastModified |-> FALSE]

\* the server answers a request as it should (200, or 304 to a matching
\* validator), or with an error status
Moods == {"ok", "error"}
Answer(mood, req) ==
    CHOOSE r \in Responses(req, AssetResource) :
        IF mood = "ok" THEN r.status \in {"200", "304"} ELSE r.status = mood

\* project.py:911-914: what fetch_if_newer came to (r) decides about the file
\* and its registration
asset_fetched(st, url, at, r) ==
    [fs |-> IF r.ret = "True" THEN [st.fs EXCEPT ![at] = RegularFile] ELSE st.fs,
     list |-> IF r.ret = "True" THEN register_installed_file(st.list, <<at>>)
              ELSE st.list,
     cache |-> Put(st.cache, url, r.cache),
     ret |-> r.ret]

\* the asset's entry in the asset cache, and the file of the asset
CacheOf(st, url) == IF url \in DOMAIN st.cache THEN st.cache[url] ELSE EmptyCache
FileAt(st, at) == IF st.fs[at].kind = "file" THEN Some(AssetResource.body) ELSE Absent

\* GithubAsset.download(): st = [fs, list, cache]
asset_download(st, url, at, localNow, mood) ==
    asset_fetched(st, url, at,
        fetch_if_newer(CacheOf(st, url), TRUE, FileAt(st, at), localNow,
            Answer(mood, RequestHeaders(CacheOf(st, url), TRUE, FileAt(st, at) # Absent))))

\* a step of an operation: what was done, and on which asset or source
Step(what, on) == [step |-> what, on |-> on]

\* mutant: the last asset decides
last_decides(needs_install, asset_needs_install) == asset_needs_install

\* project.py:734: needs_install |= asset_needs_install
or_assign(needs_install, asset_needs_install) == needs_install \/ asset_needs_install

\* project.py:732-736: one turn of the loop, d being what the asset's download
\* came to
asset_tried(st, name, d) ==
    [fs |-> d.fs, list |-> d.list, cache |-> d.cache,
     fetched |-> IF d.ret = "True" THEN Append(st.fetched, name) ELSE st.fetched,
     failed |-> IF d.ret \in {"HTTPError", "ConnectionError"}
                THEN Append(st.failed, name) ELSE st.failed,
     steps |-> Append(st.steps, Step("download", name)),
     ret |-> IF d.ret \in {"HTTPError", "ConnectionError"} THEN st.ret
             ELSE or_assign(st.ret, d.ret = "True")]

\* the loop of GitHubProject.download() (project.py:731-736): an exception of an
\* asset's download is logged and the loop goes on. fetched: the assets whose
\* fetch_if_newer returned True, failed: those whose download raised.
\* st = [fs, list, cache, fetched, failed, steps, ret]
RECURSIVE download_assets(_, _, _, _, _)
download_assets(assets, release, moods, localNow, st) ==
    IF assets = <<>> THEN st
    ELSE download_assets(Tail(assets), release, Tail(moods), localNow,
             asset_tried(st, Head(assets).name,
                 asset_download(st, AssetUrl(release, Head(assets).name),
                                asset_source(Head(assets).name), localNow, Head(moods))))

\* the install rules a list of new sources triggers, one step each
RuleSteps(new_sources) ==
    LET hits == SelectSeq(new_sources, InstallRuleMatches)
    IN  [k \in 1..Len(hits) |-> Step("rule", hits[k])]

\* one turn of the loop, a being what asset.install() came to
asset_installed(st, name, members, a) ==
    [fs |-> a.fs, list |-> a.list, raised |-> a.raised,
     steps |-> st.steps \o <<Step("actions", name)>>
               \o (IF name = TgzName /\ ~a.raised
                   THEN RuleSteps(Extracted(members)) ELSE <<>>)]

\* the loop over the assets in Installable.install (project.py:370-371), each
\* asset.install() running the asset's spec and the rules its new sources
\* trigger; an exception ends the loop. st = [fs, list, raised, steps]
RECURSIVE install_assets(_, _, _)
install_assets(assets, members, st) ==
    IF assets = <<>> \/ st.raised THEN st
    ELSE install_assets(Tail(assets), members,
             asset_installed(st, Head(assets).name, members,
                 IF Head(assets).name = TgzName THEN install_asset(st.list, st.fs, members)
                 ELSE [fs |-> st.fs, list |-> st.list, raised |-> FALSE]))

\* update() as install(), download() or the user call it: outcome is what the
\* metadata fetch comes to, latest the release upstream holds then
life_update(st, rc, outcome, latest, at) ==
    LET rc1 == IF outcome = "Updated"
               THEN [mapping |-> TRUE, data |-> <<Upstream(latest)>>] ELSE rc
        r == update_at(LifeConfig, rc1, st, outcome, at)
    IN  [state |-> r.state, rc |-> rc1, raised |-> r.raised, ret |-> r.ret]

\* n: the number of the operation
NoRun ==
    [name |-> "none", arg |-> FALSE, raised |-> FALSE, release |-> Absent, steps |-> <<>>,
     fetched |-> <<>>, failed |-> <<>>, ret |-> FALSE, n |-> 0]

\* project.py:729-737 after the update u: d is what the loop over the assets
\* came to
downloaded(u, release, assets, d) ==
    [fs |-> d.fs, list |-> d.list, cache |-> d.cache, state |-> u.state,
     rc |-> u.rc, raised |-> FALSE, release |-> release, assets |-> assets,
     fetched |-> d.fetched, failed |-> d.failed, steps |-> d.steps, ret |-> d.ret]

\* project.py:729-737 after the update u, with the steps so far
download_after(w, u, before, release, moods, localNow) ==
    IF u.raised
    THEN [fs |-> w.fs, list |-> w.list, cache |-> w.cache, state |-> u.state,
          rc |-> u.rc, raised |-> TRUE, release |-> Absent, assets |-> <<>>,
          fetched |-> <<>>, failed |-> <<>>, steps |-> before, ret |-> FALSE]
    ELSE downloaded(u, release, get_assets(LifeConfig, u.rc, Absent).assets,
             IF release = Absent
             THEN [fs |-> w.fs, list |-> w.list, cache |-> w.cache,
                   fetched |-> <<>>, failed |-> <<>>, steps |-> before, ret |-> FALSE]
             ELSE download_assets(get_assets(LifeConfig, u.rc, Absent).assets,
                      release[1], moods, localNow,
                      [fs |-> w.fs, list |-> w.list, cache |-> w.cache,
                       fetched |-> <<>>, failed |-> <<>>, steps |-> before,
                       ret |-> FALSE]))

\* project.py:727-728 done (u): the release is selected from the metadata then
download_updated(w, u, before, moods, localNow) ==
    download_after(w, u, before, select_release(LifeConfig, u.rc).release, moods, localNow)

\* GitHubProject.download() (project.py:726-737) on w = [fs, list, cache, state, rc]
project_download(w, outcome, latest, moods, at, localNow) ==
    IF w.state.updated = Absent
    THEN download_updated(w, life_update(w.state, w.rc, outcome, latest, at),
                          <<Step("update", <<>>)>>, moods, localNow)
    ELSE download_updated(w, [state |-> w.state, rc |-> w.rc, raised |-> FALSE,
                              ret |-> FALSE], <<>>, moods, localNow)

\* mutant: install leaves the state as it is
stamp_nothing(st, release) == st

\* project.py:756-758: with self.state as state: if release is not None:
\* state['installed'] = release.todict()
stamp_installed(st, release) ==
    IF release = Absent THEN st ELSE [st EXCEPT !.installed = Some(todict(release[1]))]

\* mutant: the script runs before the actions of the assets
script_first(steps, done) == <<Step("postinstall", <<>>)>> \o steps \o done

\* project.py:748-754: super().install(), then the post-install script
then_script(steps, done) == steps \o done \o <<Step("postinstall", <<>>)>>

\* the step that records the installed release
StampStep(release) == IF release = Absent THEN <<>> ELSE <<Step("stamp", <<>>)>>

\* project.py:748-758: the actions of the assets came to a, then the script and
\* the stamp
install_acted(d, a) ==
    IF a.raised
    THEN [d EXCEPT !.fs = a.fs, !.list = a.list, !.raised = TRUE, !.steps = a.steps]
         @@ [inside |-> TRUE, ran |-> FALSE]
    ELSE [d EXCEPT !.fs = a.fs, !.list = a.list,
                   !.state = stamp_installed(d.state, d.release),
                   !.steps = then_script(d.steps,
                                 SubSeq(a.steps, Len(d.steps) + 1, Len(a.steps)))
                             \o StampStep(d.release)]
         @@ [inside |-> FALSE, ran |-> TRUE]

\* project.py:746-758 after download() came to d
install_downloaded(d, members, force) ==
    IF d.raised THEN d @@ [inside |-> FALSE, ran |-> FALSE]
    ELSE IF NeedsInstall(d.ret, force, d.state.installed # Absent)
    THEN install_acted(d, install_assets(d.assets, members,
                              [fs |-> d.fs, list |-> d.list, raised |-> FALSE,
                               steps |-> d.steps]))
    ELSE [d EXCEPT !.state = stamp_installed(d.state, d.release),
                   !.steps = d.steps \o StampStep(d.release)]
         @@ [inside |-> FALSE, ran |-> FALSE]

\* GitHubProject.install(force) (project.py:739-758). The update of line 740 and
\* the one download() would make are the same call: once it has returned,
\* state['updated'] is set. inside: an exception was raised inside the
\* project-directory scope; ran: the asset actions were run to their end
project_install(w, members, force, outcome, latest, moods, at, localNow) ==
    install_downloaded(project_download(w, outcome, latest, moods, at, localNow),
                       members, force)

\* GitHubProject.use_directory (project.py:631-645): chdir(self.directory), the
\* body, chdir(old_cwd); an exception raised in the body passes the generator's
\* yield, and the statement after it is not run
use_directory(old_cwd, raised_inside) == IF raised_inside THEN PD ELSE old_cwd

\* where the process is started from
StartDir == <<"/">>

\* the metadata fetch of a project without cached metadata cannot be answered by
\* NotModified, nor be throttled
OutcomesFor(rc) == IF rc.data = <<>> THEN {"Updated", "HTTPError"} ELSE FetchOutcomes

\* upstream never withdraws a release
LatestFor(rc) == (IF rc.data = <<>> THEN 1 ELSE rc.data[1].created_at)..MaxUpstream

\* what a metadata fetch may come to, and the release upstream holds when it
\* answers in full
MetaFetches(rc) ==
    {<<"Updated", latest>> : latest \in LatestFor(rc)}
    \cup {<<outcome, 1>> : outcome \in OutcomesFor(rc) \ {"Updated"}}

\* install() and download() fetch the metadata of a project never updated only
MetaFetchesIfNeeded(st, rc) ==
    IF st.updated = Absent THEN MetaFetches(rc) ELSE {<<"Throttled", 1>>}

LifeInputs ==
    /\ InitProject
    /\ archive = << <<"t", "tool">> >>
    /\ settings = [fetch_delay |-> DefaultDelay, update_delay |-> DefaultDelay]
    /\ now = 0 /\ tz = 0
    /\ srv = AssetResource
    /\ cache = EmptyCache /\ file = Absent /\ download_file = FALSE
    /\ last = NoCall /\ prev = NoPrev
    /\ config = LifeConfig
    /\ release_cache = [mapping |-> TRUE, data |-> <<>>]
    /\ state = NoState
    /\ result = NoResultYet
    /\ asset_cache = [u \in {} |-> EmptyCache]
    /\ cwd = StartDir
    /\ acted = {}
    /\ run = NoRun

LifeIdle ==
    /\ asset_cache = [u \in {} |-> EmptyCache]
    /\ cwd = StartDir
    /\ acted = {}
    /\ run = NoRun

World == [fs |-> fs, list |-> installed_files, cache |-> asset_cache, state |-> state,
          rc |-> release_cache]

LifeInstall ==
    /\ run.n < MaxOps
    /\ \E force \in BOOLEAN, meta \in MetaFetchesIfNeeded(state, release_cache),
       moods \in [1..2 -> Moods] :
        \E r \in {project_install(World, archive, force, meta[1], meta[2], moods,
                                 now, LocalNow(now, tz))} :
            /\ LinkLocation(fs, Tool, LinkPath) \in Nodes
            /\ fs' = r.fs /\ installed_files' = r.list /\ asset_cache' = r.cache
            /\ state' = r.state /\ release_cache' = r.rc
            /\ cwd' = use_directory(cwd, r.inside)
            /\ acted' = IF r.ran /\ r.release # Absent
                        THEN acted \cup {r.release[1].tag_name} ELSE acted
            /\ run' = [name |-> "install", arg |-> force, raised |-> r.raised,
                       release |-> r.release, steps |-> r.steps, fetched |-> r.fetched,
                       failed |-> r.failed, ret |-> r.ret, n |-> run.n + 1]
            /\ UNCHANGED <<archive, installed, op, config, result>>
            /\ UNCHANGED <<settings, now, tz, srv, cache, file, download_file, last, prev>>
            /\ UNCHANGED <<patternVars, callVars>>

LifeDownload ==
    /\ run.n < MaxOps
    /\ \E meta \in MetaFetchesIfNeeded(state, release_cache), moods \in [1..2 -> Moods] :
        \E r \in {project_download(World, meta[1], meta[2], moods, now, LocalNow(now, tz))} :
            /\ fs' = r.fs /\ installed_files' = r.list /\ asset_cache' = r.cache
            /\ state' = r.state /\ release_cache' = r.rc
            /\ run' = [name |-> "download", arg |-> FALSE, raised |-> r.raised,
                       release |-> r.release, steps |-> r.steps, fetched |-> r.fetched,
                       failed |-> r.failed, ret |-> r.ret, n |-> run.n + 1]
            /\ UNCHANGED <<cwd, acted>>
            /\ UNCHANGED <<archive, installed, op, config, result>>
            /\ UNCHANGED <<settings, now, tz, srv, cache, file, download_file, last, prev>>
            /\ UNCHANGED <<patternVars, callVars>>

LifeUpdate ==
    /\ run.n < MaxOps
    /\ \E meta \in MetaFetches(release_cache) :
        \E r \in {life_update(state, release_cache, meta[1], meta[2], now)} :
            /\ state' = r.state /\ release_cache' = r.rc
            /\ run' = [NoRun EXCEPT !.name = "update", !.raised = r.raised, !.ret = r.ret,
                                    !.steps = <<Step("update", <<>>)>>, !.n = run.n + 1]
            /\ UNCHANGED <<asset_cache, cwd, acted>>
            /\ UNCHANGED <<projectVars, config, result>>
            /\ UNCHANGED <<fetchVars, patternVars, callVars>>

LifeUninstall ==
    /\ run.n < MaxOps
    /\ \E keep_assets \in BOOLEAN :
        \E r \in {uninstall(installed_files, fs, keep_assets)} :
            /\ fs' = r.fs /\ installed_files' = r.list
            /\ state' = [state EXCEPT !.installed = Absent]
            /\ cwd' = use_directory(cwd, FALSE)
            /\ run' = [NoRun EXCEPT !.name = "uninstall", !.arg = keep_assets,
                                    !.n = run.n + 1]
            /\ UNCHANGED <<asset_cache, acted>>
            /\ UNCHANGED <<archive, installed, op, config, release_cache, result>>
            /\ UNCHANGED <<fetchVars, patternVars, callVars>>

\* the user lets more than the throttle intervals pass
Wait ==
    /\ now + settings.fetch_delay + 1 <= MaxWaits * (settings.fetch_delay + 1)
    /\ now' = now + settings.fetch_delay + 1
    /\ UNCHANGED <<settings, tz, srv, cache, file, download_file, last, prev>>
    /\ UNCHANGED <<patternVars, projectVars, releaseVars, callVars, lifeVars>>

NextLife == LifeInstall \/ LifeDownload \/ LifeUpdate \/ LifeUninstall \/ Wait

----------------------------------------------------------------------------
(* Helper functions applied to bounded inputs: first, and the construction *)
(* of a project from a name, a user/repo string or a GitHub URL            *)
(*                                                                         *)
(* A name or URL is a sequence of tokens: the scheme, a host label or a    *)
(* host form one token each, every other character is a token of its own.  *)

MaxItems == 3      \* the length of the iterables handed to first
MaxWord == 2       \* the length of user and repository names

\* what a call gave: a value, or a ValueError
NoAnswer == [fn |-> "none", raised |-> FALSE, value |-> Absent]
ValueError(fn) == [fn |-> fn, raised |-> TRUE, value |-> Absent]
Returned(fn, v) == [fn |-> fn, raised |-> FALSE, value |-> Some(v)]

\* mutant: a default is returned under strict too
EmptyRaisesWithoutDefault(default, strict) == default = Absent

\* utils.py:44: an empty iterable raises unless a default was given and strict is off
EmptyRaises(default, strict) == strict \/ default = Absent

\* first(iterable, default=..., strict=...): default is Absent when none was given
first(iterable, default, strict) ==
    IF iterable = <<>>
    THEN IF EmptyRaises(default, strict) THEN ValueError("first")
         ELSE Returned("first", default[1])
    ELSE IF strict /\ Tail(iterable) # <<>> THEN ValueError("first")
    ELSE Returned("first", Head(iterable))

Schemes == {"https://", "http://"}
Subdomains == {"www."}
Letters == {"u", "r"}
Words == SeqsUpTo(Letters, 1, MaxWord)

\* the end of a greedy character class [^...]+ that starts at i: the first
\* position from i on that holds a character of stop, or Len(s) + 1
RECURSIVE RunEnd(_, _, _)
RunEnd(s, i, stop) ==
    IF i <= Len(s) /\ s[i] \notin stop THEN RunEnd(s, i + 1, stop) ELSE i

NoMatch == [ok |-> FALSE, user |-> <<>>, repo |-> <<>>]

\* ([^stop]+)/([^stop]+) matched at position i, as re.match does: anything may follow
TwoGroups(s, i, stop) ==
    LET j == RunEnd(s, i, stop) IN
    IF j = i \/ j > Len(s) \/ s[j] # "/" THEN NoMatch
    ELSE LET k == RunEnd(s, j + 1, stop) IN
         IF k = j + 1 THEN NoMatch
         ELSE [ok |-> TRUE, user |-> Slice(s, i, j - i), repo |-> Slice(s, j + 1, k - j - 1)]

\* GitHubProject.parse_github_url:
\* https?://(?:[^/]+\.)?github.com/([^/?\s]+)/([^/?\s]+)
parse_github_url(url) ==
    IF Len(url) < 2 \/ url[1] \notin Schemes THEN NoMatch
    ELSE LET h == IF url[2] \in Subdomains THEN 3 ELSE 2 IN
         IF Len(url) < h + 1 \/ url[h] # "github.com" \/ url[h + 1] # "/" THEN NoMatch
         ELSE TwoGroups(url, h + 2, {"/", "?", " "})

\* f'https://github.com/{user}/{repo}'
CanonicalUrl(user, repo) == <<"https://", "github.com", "/">> \o user \o <<"/">> \o repo

\* mutant: the name is the user's
NameOfUser(m) == m.user

\* project.py:574: self.name = repo
NameOf(m) == m.repo

\* GitHubProject.__init__(name) with the configured projects (name -> url): the
\* name and URL of the project, or ValueError
NewProject(name, projects) ==
    IF name \notin DOMAIN projects
    THEN LET m == IF name # <<>> /\ name[1] \in Schemes
                  THEN parse_github_url(name)
                  ELSE TwoGroups(name, 1, {"/", " "})
         IN  IF ~m.ok THEN ValueError("project")
             ELSE IF m.repo \in DOMAIN projects
                     /\ projects[m.repo] # CanonicalUrl(m.user, m.repo)
             THEN ValueError("project")
             ELSE Returned("project",
                           [name |-> NameOf(m), url |-> CanonicalUrl(m.user, m.repo)])
    ELSE IF parse_github_url(projects[name]).ok
    THEN Returned("project", [name |-> name, url |-> projects[name]])
    ELSE ValueError("project")

\* what may follow the repository in a name or URL
Subpaths == {<<>>, <<"/">>, <<"/", "s">>, <<"/", "s", "/", "t">>, <<"?", "q">>}

ShortForm(user, repo) == user \o <<"/">> \o repo
UrlForm(scheme, host, user, repo) == <<scheme>> \o host \o <<"/">> \o user \o <<"/">> \o repo

ProjectNames ==
    Words
    \cup {ShortForm(u, r) \o sub : u \in Words, r \in Words, sub \in Subpaths}
    \cup {UrlForm(sch, host, u, r) \o sub :
            sch \in Schemes,
            host \in {<<"github.com">>, <<"www.", "github.com">>, <<"example.org">>},
            u \in Words, r \in Words, sub \in Subpaths}

\* the projects file: empty, or one project, named as the repository is or by its URL
ProjectsChoices(name) ==
    {[k \in {} |-> <<>>]}
    \cup {[k \in {n} |-> CanonicalUrl(u, <<"r">>)] :
            n \in {<<"r">>, name}, u \in {<<"u">>, <<"r">>}}

FirstCalls ==
    [fn : {"first"}, iterable : SeqsUpTo(1..2, 0, MaxItems),
     default : {Absent, Some(0)}, strict : BOOLEAN]

\* no install is in progress
NoWork == [new_sources |-> <<>>, ran |-> {}, again |-> FALSE, fed |-> FALSE]

\* no operation has entered a project directory
NoScope == [serialized |-> TRUE,
            at |-> [i \in 1..2 |-> [pc |-> "out", old_cwd |-> <<>>, resolved |-> <<>>]]]

CallInputs ==
    /\ call \in FirstCalls \cup
                UNION {{[fn |-> "project", name |-> n, projects |-> p] :
                            p \in ProjectsChoices(n)} : n \in ProjectNames}
    /\ answer = NoAnswer
    /\ work = NoWork
    /\ scope = NoScope

CallIdle ==
    /\ call = [fn |-> "none"]
    /\ answer = NoAnswer
    /\ work = NoWork
    /\ scope = NoScope

First ==
    /\ call.fn = "first" /\ answer = NoAnswer
    /\ answer' = first(call.iterable, call.default, call.strict)
    /\ UNCHANGED <<call, work, scope>>
    /\ UNCHANGED <<patternVars, fetchVars, projectVars, releaseVars, lifeVars>>

Construct ==
    /\ call.fn = "project" /\ answer = NoAnswer
    /\ answer' = NewProject(call.name, call.projects)
    /\ UNCHANGED <<call, work, scope>>
    /\ UNCHANGED <<patternVars, fetchVars, projectVars, releaseVars, lifeVars>>

NextCalls == First \/ Construct

----------------------------------------------------------------------------
(* The install rules of a project: the worklist of Installable.install     *)
(*                                                                         *)
(* The asset t.tgz has the install spec 'unpack'; the project's 'install'  *)
(* mapping holds up to MaxRules rules, pattern = spec, in the order they   *)
(* were written. A path is matched as text: its parts joined by "/".       *)

MaxRules == 2      \* the rules of a project

\* fspath of a relative path
RECURSIVE fspath(_)
fspath(p) ==
    IF Len(p) <= 1 THEN p ELSE <<Head(p), "/">> \o fspath(Tail(p))

\* the rule patterns '*/tool', 't/*' and '*'
RulePatterns == { <<"*", "/", "tool">>, <<"t", "/", "*">>, <<"*">> }

\* the specs of a rule: 'bin', {'record': 't/tool'}, and an action name the
\* engine does not know
RuleSpecs == {"bin", "record", "foo"}

\* bin is configured for tools only
Rules1 ==
    {r \in [pattern : RulePatterns, spec : RuleSpecs] :
        r.spec = "bin" => r.pattern = <<"*", "/", "tool">>}

\* the 'install' mapping of the project: no pattern twice
RuleConfigs ==
    {q \in SeqsUpTo(Rules1, 0, MaxRules) :
        \A i, j \in 1..Len(q) : i # j => q[i].pattern # q[j].pattern}

\* an element of new_sources: a path, or a list of paths
PathEntry(p) == [nested |-> FALSE, path |-> p]
ListEntry == [nested |-> TRUE, path |-> <<>>]

\* project.py:324: return [files]
record_result(files) == <<ListEntry>>

\* Installable.record('t/tool') (project.py:317-324)
record(list, f) ==
    LET found == expand_arg(f, <<"t", "tool">>)
        files == IF found = {} THEN <<>> ELSE <<relative_to(Tool, PD)>>
    IN  [fs |-> f, list |-> register_installed_file(list, files),
         new |-> record_result(files)]

\* Installable(self.project, source, spec)._run_actions(spec) (project.py:387-388)
\* on a source of the project directory
rule_actions(spec, source, list, f) ==
    IF spec = "bin"
    THEN LET b == bin(list, f, source)
         IN  [fs |-> b.fs, list |-> b.list,
              new |-> [k \in 1..Len(b.new) |-> PathEntry(b.new[k])]]
    ELSE IF spec = "record" THEN record(list, f)
    ELSE [fs |-> f, list |-> list, new |-> <<>>]

\* project.py:382: source.absolute().is_relative_to(self.project.directory), the
\* process being in the project directory
is_in_pd(source) ==
    is_relative_to(IF is_absolute(source) THEN source ELSE PD \o source, PD)

\* a rule has run on a source
RuleStep(k, source) == [rule |-> k, source |-> source]

\* mutant: only a rule with bin asks whether the source is in the project directory
RECURSIVE for_rules_anywhere(_, _, _, _)
for_rules_anywhere(source, rules, k, st) ==
    IF k > Len(rules) THEN st
    ELSE for_rules_anywhere(source, rules, k + 1,
             IF /\ (is_in_pd(source) \/ rules[k].spec # "bin")
                /\ fnmatch(fspath(source), rules[k].pattern)
             THEN LET r == rule_actions(rules[k].spec, source, st.list, st.fs)
                  IN  [fs |-> r.fs, list |-> r.list, new |-> st.new \o r.new,
                       steps |-> Append(st.steps, RuleStep(k, source))]
             ELSE st)

\* project.py:383-388: the loop over the rules for one source
\* st = [fs, list, new, steps]
RECURSIVE for_rules(_, _, _, _)
for_rules(source, rules, k, st) ==
    IF k > Len(rules) THEN st
    ELSE for_rules(source, rules, k + 1,
             IF is_in_pd(source) /\ fnmatch(fspath(source), rules[k].pattern)
             THEN LET r == rule_actions(rules[k].spec, source, st.list, st.fs)
                  IN  [fs |-> r.fs, list |-> r.list, new |-> st.new \o r.new,
                       steps |-> Append(st.steps, RuleStep(k, source))]
             ELSE st)

\* project.py:380-388: while new_sources: source = new_sources.pop(0); ...
\* A list has no absolute(): AttributeError.
\* st = [fs, list, raised, produced, examined, steps]
RECURSIVE worklist(_, _, _)
worklist(new_sources, rules, st) ==
    IF new_sources = <<>> THEN st
    ELSE IF Head(new_sources).nested THEN [st EXCEPT !.raised = TRUE]
    ELSE LET r == for_rules(Head(new_sources).path, rules, 1,
                      [fs |-> st.fs, list |-> st.list, new |-> <<>>, steps |-> st.steps])
         IN  worklist(Tail(new_sources) \o r.new, rules,
                 [fs |-> r.fs, list |-> r.list, raised |-> FALSE,
                  produced |-> st.produced \o r.new,
                  examined |-> Append(st.examined, Head(new_sources)),
                  steps |-> r.steps])

\* asset.install() (project.py:360-388) for the asset with the spec 'unpack'
asset_install(rules, list, f, members) ==
    IF Stat(f, AssetFile).kind = "none"
    THEN [fs |-> f, list |-> list, raised |-> TRUE, produced |-> <<>>,
          examined |-> <<>>, steps |-> <<>>]
    ELSE LET u == unpack(list, f, members)
             new_sources == [k \in 1..Len(members) |-> PathEntry(Extracted(members)[k])]
         IN  worklist(new_sources, rules,
                 [fs |-> u.fs, list |-> u.list, raised |-> FALSE,
                  produced |-> new_sources, examined |-> <<>>, steps |-> <<>>])

AssetInstall ==
    \E rules \in RuleConfigs :
        \E r \in {asset_install(rules, installed_files, fs, archive)} :
            /\ LinkLocation(fs, Tool, LinkPath) \in Nodes
            /\ fs' = r.fs /\ installed_files' = r.list
            /\ op' = Done("install", <<>>, FALSE, r.raised)
            /\ call' = [fn |-> "install", rules |-> rules]
            /\ answer' = [fn |-> "install", raised |-> r.raised,
                          value |-> Some([produced |-> r.produced, examined |-> r.examined,
                                          steps |-> r.steps])]
            /\ UNCHANGED <<work, scope>>
            /\ UNCHANGED <<archive, installed>>
            /\ UNCHANGED <<patternVars, fetchVars, releaseVars, lifeVars>>

NextRules == Download \/ AssetInstall \/ Uninstall

----------------------------------------------------------------------------
(* unpack of a tar archive (project.py:246-267): the members with their     *)
(* names and kinds, the filter for unsafe names, and the paths it returns   *)

MaxMembers == 2    \* the members of a tar archive

\* a member of a tar archive: its name as path parts, its kind, and for a
\* symbolic link what it points to
TarFile(name) == [name |-> name, kind |-> "file", target |-> <<>>]
TarDir(name) == [name |-> name, kind |-> "dir", target |-> <<>>]
TarLink(name, to) == [name |-> name, kind |-> "link", target |-> to]

\* the directory t, the file t/tool, files named '../bin/tool', '/bin/tool' and
\* 't/../notes', and the links notes -> t/tool and notes -> /x
TarEntries ==
    { TarDir(<<"t">>), TarFile(<<"t", "tool">>),
      TarFile(<<"..", "bin", "tool">>), TarFile(<<"/", "bin", "tool">>),
      TarFile(<<"t", "..", "notes">>),
      TarLink(<<"notes">>, <<"t", "tool">>), TarLink(<<"notes">>, OtherDir) }

\* the archives: no two members with the same name
TarArchives ==
    {a \in SeqsUpTo(TarEntries, 0, MaxMembers) :
        \A i, j \in 1..Len(a) : i # j => a[i].name # a[j].name}

\* project.py:248-249: not (Path(m.name).is_absolute() or '..' in Path(m.name).parts)
is_safe_member(m) ==
    ~(is_absolute(m.name) \/ \E k \in 1..Len(m.name) : m.name[k] = "..")

safe_members(members) == SelectSeq(members, is_safe_member)

\* path / member: an absolute member name replaces the path
joined(path, name) == IF is_absolute(name) THEN name ELSE path \o name

\* tarfile extracts one member below path: missing parent directories are made, a
\* symbolic link is made with its target as it is in the archive
extract_member(f, path, m) ==
    LET at == Loc(joined(path, m.name)) IN
    IF m.kind = "dir" THEN MakeDirs(f, at)
    ELSE IF m.kind = "file" THEN [MakeDirs(f, parent(at)) EXCEPT ![at] = RegularFile]
    ELSE [MakeDirs(f, parent(at)) EXCEPT
             ![at] = Symlink(Loc(joined(parent(at), m.target)))]

\* tar.extractall(path, safe_members)
RECURSIVE extractall(_, _, _)
extractall(f, path, members) ==
    IF members = <<>> THEN f
    ELSE extractall(extract_member(f, path, Head(members)), path, Tail(members))

\* Path.resolve(): a symbolic link is replaced by what it points to
resolve(f, p) == IF Stat(f, p).kind = "link" THEN Stat(f, p).target ELSE Loc(p)

\* Installable.unpack(None) on a tar archive: the safe members are extracted; the
\* paths registered and returned are the resolved ones, relative to the project
\* directory, and relative_to raises ValueError for a path that is not in it
unpack_tar(list, f, members) ==
    LET path == parent(AssetFile)
        safe == safe_members(members)
        after == extractall(f, path, safe)
        resolved == [k \in 1..Len(safe) |-> resolve(after, joined(path, safe[k].name))]
        extracted_files == [k \in 1..Len(safe) |-> relative_to(resolved[k], PD)]
    IN  IF \E k \in 1..Len(safe) : ~is_relative_to(resolved[k], PD)
        THEN [fs |-> after, list |-> list, raised |-> TRUE, new |-> <<>>]
        ELSE [fs |-> after, list |-> register_installed_file(list, extracted_files),
              raised |-> FALSE, new |-> extracted_files]

\* unpack of the downloaded asset, once, for every archive
UnpackTar ==
    \E members \in TarArchives :
        /\ fs[AssetFile].kind = "file"
        /\ call.fn = "none"
        /\ \E r \in {unpack_tar(installed_files, fs, members)} :
              /\ fs' = r.fs /\ installed_files' = r.list
              /\ op' = [Done("unpack", <<>>, FALSE, r.raised) EXCEPT !.new = r.new]
              /\ call' = [fn |-> "unpack", members |-> members]
              /\ answer' = [fn |-> "unpack", raised |-> r.raised, value |-> Some(r.new)]
              /\ UNCHANGED <<work, scope>>
        /\ UNCHANGED <<archive, installed>>
        /\ UNCHANGED <<patternVars, fetchVars, releaseVars, lifeVars>>

NextUnpack == Download \/ UnpackTar

----------------------------------------------------------------------------
(* The worklist of Installable.install (project.py:379-388), one turn of    *)
(* the loop at a time, with rules whose action is link                       *)

MaxQueue == 3      \* the paths waiting in the worklist

\* the rule patterns '*', 't/*' and 'notes'
WorkPatterns == { <<"*">>, <<"t", "/", "*">>, <<"notes">> }

\* where the rules put their link: 'notes' and 't/c' in the project directory,
\* 't/tool' where the extracted file is, and a path in the bin directory
WorkLinks == { relative_to(Notes, PD), relative_to(SubDir, PD), relative_to(Tool, PD),
               LinkPath }

\* the 'install' mapping of the project: pattern = {link: arg}, no pattern twice
WorkConfigs ==
    {q \in SeqsUpTo([pattern : WorkPatterns, link : WorkLinks], 0, MaxRules) :
        \A i, j \in 1..Len(q) : i # j => q[i].pattern # q[j].pattern}

\* Installable(project, source, {link: arg})._run_actions: link returns the link
\* path as the rule names it, or nothing when it refuses
link_rule(arg, source, list, f) ==
    LET r == link(list, f, resolve_path(source), resolve_path(arg))
    IN  [fs |-> r.fs, list |-> r.list, new |-> IF r.new = <<>> THEN <<>> ELSE <<arg>>]

\* a rule has produced a path of the project directory that its own pattern matches
feeds_itself(rule, new) ==
    \E k \in 1..Len(new) : is_in_pd(new[k]) /\ fnmatch(fspath(new[k]), rule.pattern)

\* project.py:384-388: one rule for one source; r is what the rule's link did
\* st = [fs, list, new, ran, again, fed]
after_link(rule, k, source, st, r) ==
    [fs |-> r.fs, list |-> r.list, new |-> st.new \o r.new,
     ran |-> st.ran \cup {RuleStep(k, source)},
     again |-> st.again \/ RuleStep(k, source) \in st.ran,
     fed |-> st.fed \/ feeds_itself(rule, r.new)]

for_link(rule, k, source, st) ==
    IF is_in_pd(source) /\ fnmatch(fspath(source), rule.pattern)
    THEN CHOOSE after \in {after_link(rule, k, source, st, r) :
                              r \in {link_rule(rule.link, source, st.list, st.fs)}} : TRUE
    ELSE st

\* project.py:383-388: the loop over the rules for one source
RECURSIVE for_links(_, _, _, _)
for_links(source, rules, k, st) ==
    IF k > Len(rules) THEN st
    ELSE for_links(source, rules, k + 1,
             CHOOSE after \in {for_link(rules[k], k, source, before) : before \in {st}} :
                 TRUE)

\* mutant: a path a rule has run on is not queued again
extend_unseen(new_sources, new, ran) ==
    new_sources \o SelectSeq(new, LAMBDA p : \A s \in ran : s.source # p)

\* project.py:388: new_sources.extend(...)
extend(new_sources, new, ran) == new_sources \o new

InstallRunning == call.fn = "install" /\ answer.fn = "none"

\* asset.install() begins: the spec 'unpack' of the asset is run and what it
\* returns is the worklist
StartInstall ==
    \E rules \in WorkConfigs :
        /\ call.fn = "none"
        /\ fs[AssetFile].kind = "file"
        /\ \E u \in {unpack(installed_files, fs, archive)} :
              fs' = u.fs /\ installed_files' = u.list
        /\ op' = Done("start", <<>>, FALSE, FALSE)
        /\ call' = [fn |-> "install", rules |-> rules]
        /\ work' = [new_sources |-> Extracted(archive), ran |-> {}, again |-> FALSE,
                    fed |-> FALSE]
        /\ UNCHANGED <<archive, installed, answer, scope>>
        /\ UNCHANGED <<patternVars, fetchVars, releaseVars, lifeVars>>

\* one turn of the loop: source = new_sources.pop(0), and the rules for it
Turn ==
    /\ InstallRunning
    /\ work.new_sources # <<>>
    /\ Len(work.new_sources) <= MaxQueue
    /\ \E r \in {for_links(Head(work.new_sources), call.rules, 1,
                     [fs |-> fs, list |-> installed_files, new |-> <<>>,
                      ran |-> work.ran, again |-> work.again, fed |-> work.fed])} :
          /\ fs' = r.fs /\ installed_files' = r.list
          /\ work' = [new_sources |-> extend(Tail(work.new_sources), r.new, r.ran),
                      ran |-> r.ran, again |-> r.again, fed |-> r.fed]
    /\ op' = Done("turn", Head(work.new_sources), FALSE, FALSE)
    /\ UNCHANGED <<archive, installed, call, answer, scope>>
    /\ UNCHANGED <<patternVars, fetchVars, releaseVars, lifeVars>>

\* the worklist is empty: install() returns
EndInstall ==
    /\ InstallRunning
    /\ work.new_sources = <<>>
    /\ answer' = Returned("install", <<>>)
    /\ op' = Done("install", <<>>, FALSE, FALSE)
    /\ UNCHANGED <<fs, installed_files, archive, installed, call, work, scope>>
    /\ UNCHANGED <<patternVars, fetchVars, releaseVars, lifeVars>>

NextWork == StartInstall \/ Turn \/ EndInstall

----------------------------------------------------------------------------
(* Two projects in one process: use_directory (project.py:631-645) and     *)
(* resolve_path (project.py:469-474), one statement at a time              *)

\* the directories of the two projects
ProjectDir(i) == IF i = 1 THEN PD ELSE <<"/", "pd2">>

\* the project-relative paths that are resolved
RelPaths == { <<"t", "tool">>, <<"notes">> }

\* mutant: the path is resolved against the directory the process started in
absolute_at_start(dir, p) == StartDir \o p

\* Path(orig).absolute(): a relative path is resolved against the working directory
absolute(dir, p) == IF is_absolute(p) THEN p ELSE dir \o p

\* callers that serialize start an operation only when no other one is in its
\* project directory
MayEnter(i) == scope.serialized => \A j \in 1..2 : scope.at[j].pc = "out"

\* with self.use_directory(): old_cwd = Path.cwd(); chdir(self.directory)
Enter ==
    \E i \in 1..2 :
        /\ scope.at[i].pc = "out"
        /\ MayEnter(i)
        /\ scope' = [scope EXCEPT !.at[i] = [pc |-> "in", old_cwd |-> cwd, resolved |-> <<>>]]
        /\ cwd' = ProjectDir(i)
        /\ UNCHANGED <<asset_cache, acted, run, call, answer, work>>
        /\ UNCHANGED <<patternVars, fetchVars, projectVars, releaseVars>>

\* return Path(orig).absolute(), inside the with block
Resolve ==
    \E i \in 1..2, p \in RelPaths :
        /\ scope.at[i].pc = "in"
        /\ scope' = [scope EXCEPT !.at[i].resolved = absolute(cwd, p)]
        /\ UNCHANGED <<lifeVars, call, answer, work>>
        /\ UNCHANGED <<patternVars, fetchVars, projectVars, releaseVars>>

\* the with block ends: chdir(old_cwd)
Exit ==
    \E i \in 1..2 :
        /\ scope.at[i].pc = "in"
        /\ cwd' = use_directory(scope.at[i].old_cwd, FALSE)
        /\ scope' = [scope EXCEPT !.at[i].pc = "out"]
        /\ UNCHANGED <<asset_cache, acted, run, call, answer, work>>
        /\ UNCHANGED <<patternVars, fetchVars, projectVars, releaseVars>>

NextScopes == Enter \/ Resolve \/ Exit

----------------------------------------------------------------------------
(* SpecPattern: the synthesizer applied to every bounded input *)

PatternInputs ==
    /\ selection \in Names
    /\ alternatives \in SeqsUpTo(Names, 0, MaxAlts)
    /\ version \in Versions
    /\ pattern = NoResult
    /\ unique = NoResult

PatternIdle ==
    /\ selection = <<"a">>
    /\ alternatives = <<>>
    /\ version = <<>>
    /\ pattern = NoResult
    /\ unique = NoResult

IdentifyingPattern ==
    /\ pattern = NoResult
    /\ \E avoid_minimal \in BOOLEAN :
          pattern' = <<identifying_pattern(alternatives, selection, version, avoid_minimal)>>
    /\ UNCHANGED <<selection, alternatives, version, unique>>
    /\ UNCHANGED <<fetchVars, projectVars, releaseVars, callVars, lifeVars>>

UniqueSubstrings ==
    /\ unique = NoResult
    /\ unique' = <<unique_substrings(<<selection>> \o alternatives)>>
    /\ UNCHANGED <<selection, alternatives, version, pattern>>
    /\ UNCHANGED <<fetchVars, projectVars, releaseVars, callVars, lifeVars>>

NextPattern == IdentifyingPattern \/ UniqueSubstrings

vars == <<patternVars, fetchVars, projectVars, releaseVars, callVars, lifeVars>>

FetchIdle ==
    /\ settings = [fetch_delay |-> DefaultDelay, update_delay |-> DefaultDelay]
    /\ now = 0
    /\ tz = 0
    /\ srv = [etag |-> 1, lastmod |-> 0, body |-> 1,
              sendsETag |-> TRUE, sendsLastModified |-> TRUE]
    /\ cache = EmptyCache
    /\ file = Absent
    /\ download_file = FALSE
    /\ last = NoCall
    /\ prev = NoPrev

InitPattern == PatternInputs /\ FetchIdle /\ ProjectIdle /\ ReleaseIdle /\ CallIdle /\ LifeIdle

SpecPattern == InitPattern /\ [][NextPattern]_vars

InitFetch == FetchInputs /\ PatternIdle /\ ProjectIdle /\ ReleaseIdle /\ CallIdle /\ LifeIdle

SpecFetch == InitFetch /\ [][NextFetch]_vars

Init == InitProject /\ PatternIdle /\ FetchIdle /\ ReleaseIdle /\ CallIdle /\ LifeIdle

Spec == Init /\ [][Next]_vars

InitInstall == InitProject /\ PatternIdle /\ FetchIdle /\ ReleaseIdle /\ CallIdle /\ LifeIdle

SpecInstall == InitInstall /\ [][NextInstall]_vars

NextRelease == SelectRelease \/ GetAssets \/ Update \/ RecordInstalled

InitRelease == ReleaseInputs /\ PatternIdle /\ FetchIdle /\ ProjectIdle /\ CallIdle /\ LifeIdle

SpecRelease == InitRelease /\ [][NextRelease]_vars

InitCalls == CallInputs /\ PatternIdle /\ FetchIdle /\ ProjectIdle /\ ReleaseIdle /\ LifeIdle

SpecCalls == InitCalls /\ [][NextCalls]_vars

InitLife == LifeInputs /\ PatternIdle /\ CallIdle

SpecLife == InitLife /\ [][NextLife]_vars

InitRemove == InitProject /\ PatternIdle /\ FetchIdle /\ ReleaseIdle /\ CallIdle /\ LifeIdle

SpecRemove == InitRemove /\ [][NextRemove]_vars

InitRules == InitProject /\ PatternIdle /\ FetchIdle /\ ReleaseIdle /\ CallIdle /\ LifeIdle

SpecRules == InitRules /\ [][NextRules]_vars

InitUnpack == InitProject /\ PatternIdle /\ FetchIdle /\ ReleaseIdle /\ CallIdle /\ LifeIdle

SpecUnpack == InitUnpack /\ [][NextUnpack]_vars

\* the asset, an archive that holds the file t/tool, has been downloaded
InitWork ==
    /\ fs = download(<<>>, FreshFs, TRUE).fs
    /\ installed_files = download(<<>>, FreshFs, TRUE).list
    /\ archive = << <<"t", "tool">> >>
    /\ installed = FALSE
    /\ op = NoOp
    /\ PatternIdle /\ FetchIdle /\ ReleaseIdle /\ CallIdle /\ LifeIdle

SpecWork == InitWork /\ [][NextWork]_vars

\* the operations of the two projects are serialized by their callers, or not
InitScopes ==
    /\ scope \in {[NoScope EXCEPT !.serialized = b] : b \in BOOLEAN}
    /\ call = [fn |-> "none"] /\ answer = NoAnswer /\ work = NoWork
    /\ PatternIdle /\ FetchIdle /\ ProjectIdle /\ ReleaseIdle /\ LifeIdle

SpecScopes == InitScopes /\ [][NextScopes]_vars

\* install() is sequential code: a loop that can take its next turn takes it,
\* and an install whose worklist is empty returns
FairWork == SpecWork /\ WF_vars(Turn) /\ WF_vars(EndInstall)

----------------------------------------------------------------------------
(* Claims about the pattern synthesizer, checked under SpecPattern *)

Occurs(sub, s) == \E p \in 1..(Len(s) - Len(sub) + 1) : Slice(s, p, Len(sub)) = sub

\* the alternatives that differ from the selection
OtherAlternatives == {a \in SeqToSet(alternatives) : a # selection}

\* C1: identifying_pattern either raises NoPatternError or returns a pattern that
\* glob-matches the selection and glob-matches no alternative different from it,
\* whichever strategy produced the pattern.
C1_PatternIdentifiesSelection ==
    pattern # NoResult =>
        \/ pattern[1].raised
        \/ /\ fnmatch(selection, pattern[1].pattern)
           /\ \A a \in OtherAlternatives : ~fnmatch(a, pattern[1].pattern)

\* C2: every entry s -> sub of unique_substrings(strings) has sub a substring of s
\* that occurs in no other string of the input, neither inside it nor as the whole
\* of it.
C2_UniqueSubstringOccursNowhereElse ==
    unique # NoResult =>
        \A s \in DOMAIN unique[1] :
            /\ Occurs(unique[1][s], s)
            /\ \A t \in SeqToSet(<<selection>> \o alternatives) :
                   t # s => ~Occurs(unique[1][s], t)

----------------------------------------------------------------------------
(* Claims about fetch_if_newer, checked under SpecFetch *)

\* a step of the specification that is a call of fetch_if_newer
IsCall == last'.seq # last.seq

Sent(flag) == IF flag THEN 1 ELSE 0

\* C8: two calls in immediate succession that start from the empty cache perform
\* exactly one network request: the second call is stopped by the minimum
\* inter-request interval and returns NotModified without a request.
C8_SecondCallThrottled ==
    (prev.called /\ prev.immediate /\ prev.empty) =>
        /\ Sent(prev.sent) + Sent(last.req.sent) = 1
        /\ last.ret = "False"
        /\ last.path = "fetch_delay"

\* the age of the last request and of the cached Last-Modified, as time elapsed
LastRequestAge == LocalNow(now, tz) - cache["last-request"]
LastModifiedAge == now - cache["Last-Modified"].gmt

\* C9: when last-request is no older than the minimum inter-request interval, or
\* the cached Last-Modified is no older than the minimum freshness interval, the
\* call returns NotModified, sends no request and changes neither cache nor file.
C9_ThrottleSendsNothing ==
    [][(/\ IsCall
        /\ \/ "last-request" \in DOMAIN cache /\ LastRequestAge <= settings.fetch_delay
           \/ "Last-Modified" \in DOMAIN cache /\ LastModifiedAge <= settings.update_delay)
       => /\ last'.ret = "False"
          /\ ~last'.req.sent
          /\ cache' = cache
          /\ file' = file]_vars

\* C10: on a 304 answer the call returns NotModified after one request that carried
\* If-None-Match = cached ETag and If-Modified-Since = cached Last-Modified (each
\* when cached); ETag, Last-Modified and data stay as cached, and last-request is
\* set to the time of the call.
C10_NotModifiedKeepsCache ==
    [][(IsCall /\ last'.status = "304")
       => /\ last'.ret = "False"
          /\ last'.req.sent
          /\ last'.req.INM = Get(cache, "ETag")
          /\ last'.req.IMS = Get(cache, "Last-Modified")
          /\ Get(cache', "ETag") = Get(cache, "ETag")
          /\ Get(cache', "Last-Modified") = Get(cache, "Last-Modified")
          /\ Get(cache', "data") = Get(cache, "data")
          /\ Get(cache', "last-request") = Some(LocalNow(now, tz))
          /\ file' = file]_vars

\* a 304 was answered to a request that carried the cached ETag
C10_Witness ==
    /\ last.status = "304"
    /\ last.ret = "False"
    /\ last.req.INM # Absent
    /\ "last-request" \in DOMAIN cache

\* C11: every call that attempts a network request sets last-request to the time
\* of the call, whatever the outcome of the attempt (200, 304, an error status, or
\* a request that fails without a response).
C11_AttemptRecordsLastRequest ==
    [][(IsCall /\ last'.req.sent)
       => Get(cache', "last-request") = Some(LocalNow(now, tz))]_vars

\* C12: when the status of the response is neither 2xx nor 304, the call raises an
\* HTTP error after its one request, and the cached ETag, Last-Modified and data
\* and the download file are as before the call.
C12_ErrorStatusRaisesAndKeepsCache ==
    [][(IsCall /\ last'.req.sent /\ last'.status \notin {"none", "200", "304"})
       => /\ last'.ret = "HTTPError"
          /\ Get(cache', "ETag") = Get(cache, "ETag")
          /\ Get(cache', "Last-Modified") = Get(cache, "Last-Modified")
          /\ Get(cache', "data") = Get(cache, "data")
          /\ file' = file]_vars

----------------------------------------------------------------------------
(* Claims about the Installed-File Registry, delete and uninstall, checked  *)
(* under Spec                                                               *)

\* the files somebody else wrote into the project directory: no action registers them
NeverRegistered == {Notes}

\* C3: uninstall removes only files listed in the Installed-File Registry: a file
\* in the project directory that was never registered, and is not in the state
\* directory, still exists after uninstall.
C3_UninstallKeepsUnregisteredFiles ==
    [][op'.name = "uninstall" =>
          \A n \in NeverRegistered :
              (/\ is_relative_to(n, PD) /\ ~is_relative_to(n, StateDir)
               /\ fs[n].kind = "file"
               /\ ~InList(project_relative_fspath(n), installed_files))
              => fs'[n] = fs[n]]_vars

\* C4: delete removes no path that is outside the project directory and absent
\* from the Installed-File Registry, whatever its glob pattern expands to.
C4_DeleteSparesForeignPaths ==
    [][op'.name = "delete" =>
          \A n \in Nodes :
              (/\ ~is_relative_to(n, PD)
               /\ ~InList(project_relative_fspath(n), installed_files))
              => fs'[n] = fs[n]]_vars

\* C16: delete removes from the registry exactly the entries of the paths it
\* deleted; a file outside the project directory is neither deleted nor
\* unregistered, and every other entry of the registry stays.
C16_DeleteUnregistersWhatItDeleted ==
    [][op'.name = "delete" =>
          /\ \A n \in Nodes : ~is_relative_to(n, PD) => fs'[n] = fs[n]
          /\ installed_files' =
                 SelectSeq(installed_files,
                           LAMBDA e : ~(/\ fs[Loc(resolve_path(e))].kind # "none"
                                        /\ fs'[Loc(resolve_path(e))].kind = "none"))]_vars

\* C5: after an uninstall without keep_assets the registry is empty and no error
\* was raised; this holds of every uninstall, the first and one that follows it
\* immediately, for registered files, directories, links and entries whose file
\* is gone.
C5_UninstallEmptiesRegistry ==
    (op.name = "uninstall" /\ op.arg = <<>>) => (installed_files = <<>> /\ ~op.raised)

NoDuplicates(list) == \A i, j \in 1..Len(list) : list[i] = list[j] => i = j

\* C6: the registry never holds an entry twice, and registering a path whose entry
\* it holds (given project-relative or absolute) leaves it unchanged.
C6_RegistryHasNoDuplicates ==
    [][/\ NoDuplicates(installed_files')
       /\ (/\ op'.name = "register"
           /\ InList(project_relative_fspath(op'.arg), installed_files))
          => installed_files' = installed_files]_vars

\* a registered file of the project was registered again by its absolute path
C6_Witness ==
    /\ op.name = "register"
    /\ op.known
    /\ is_absolute(op.arg) /\ is_relative_to(op.arg, PD)
    /\ InList(relative_to(op.arg, PD), installed_files)
    /\ Len(installed_files) >= 2

\* C7: unregistering a path that is not in the registry raises no error and leaves
\* the registry unchanged.
C7_UnregisterUnknownIsNoOp ==
    [][(/\ op'.name = "unregister"
        /\ ~InList(project_relative_fspath(op'.arg), installed_files))
       => (~op'.raised /\ installed_files' = installed_files)]_vars

\* an unknown path was unregistered while the registry held other entries
C7_Witness ==
    /\ op.name = "unregister"
    /\ ~op.known
    /\ ~InList(project_relative_fspath(op.arg), installed_files)
    /\ installed_files # <<>>

----------------------------------------------------------------------------
(* Claims about releases and assets, checked under SpecRelease *)

\* the records of the cache that the rule makes eligible
Eligible(r) ==
    /\ ~r.draft
    /\ config.release = Latest => ~r.prerelease
    /\ config.release \notin {Latest, Pre} => fnmatch(r.tag_name, config.release)

\* C13: select_release returns the eligible release with the latest creation time,
\* or None, without an error, when no release is eligible or the cache is empty.
\* A draft is never selected and 'latest' never selects a prerelease.
C13_SelectsNewestEligible ==
    result.name = "select_release" =>
        /\ ~result.raised
        /\ IF \E r \in CachedRecords : Eligible(r)
           THEN /\ result.release # Absent
                /\ result.release[1] \in CachedRecords
                /\ Eligible(result.release[1])
                /\ \A r \in CachedRecords :
                       Eligible(r) => r.created_at <= result.release[1].created_at
           ELSE result.release = Absent

----------------------------------------------------------------------------
(* Claims about the action engine and install, checked under SpecInstall *)

\* the entries of the registry
Registered == {installed_files[k] : k \in 1..Len(installed_files)}

\* C15: install() on a project that was never installed, whose asset is new and
\* holds the one member t/tool, downloads and extracts the asset, makes t/tool
\* executable and links it from the bin directory, and the registry ends with
\* exactly two entries: the extracted file (project-relative) and the link
\* outside the project directory.
C15_InstallRegistersContentAndLink ==
    [][(/\ op'.name = "install"
        /\ op'.arg = <<"changed">>
        /\ ~installed
        /\ installed_files = <<>>
        /\ archive = <<relative_to(Tool, PD)>>
        /\ fs[AssetFile].kind = "none"
        /\ fs[LinkPath].kind = "none")
       => /\ ~op'.raised
          /\ fs'[AssetFile].kind = "file"
          /\ fs'[Tool].kind = "file"
          /\ fs'[Tool].exec
          /\ fs'[LinkPath] = Symlink(Tool)
          /\ installed'
          /\ Len(installed_files') = 2
          /\ Registered' = {relative_to(Tool, PD), LinkPath}]_vars

C18_UnknownActionIsSkipped ==
    [][(op'.name = "run_actions" /\ InList("foo", op'.arg))
       => /\ ~op'.raised
          /\ InList("unpack", op'.arg) =>
                 \A k \in 1..Len(archive) : fs'[PD \o archive[k]].kind # "none"
          /\ InList("delete", op'.arg) => fs'[AssetFile].kind = "none"]_vars

IsInstalled(r) == state.installed = Some([version |-> r.tag_name, date |-> r.published_at[1]])

\* C19: update() returns True exactly when the metadata fetch returned Updated, a
\* release is selected, and that release is not the installed one; it returns
\* False when the selected release is the one recorded as installed, when no
\* release matches and when the metadata was not modified.
C19_UpdateReportsNewRelease ==
    result.name = "update" =>
        (result.ret <=> (/\ result.updated
                         /\ result.release # Absent
                         /\ ~IsInstalled(result.release[1])))

\* C27: update() sets state.updated to the current time on every call, whatever
\* the metadata fetch comes to: Updated, NotModified, throttled or an HTTP error.
C27_UpdateAlwaysStampsUpdated ==
    result.name = "update" => state.updated = Some(result.at)

----------------------------------------------------------------------------
(* Claims about the helper functions, checked under SpecCalls *)

\* C23: first returns the first element of a non-empty iterable; on an empty one
\* it returns the default when one is given and strict is off, and raises
\* ValueError otherwise; under strict it returns the element when there is exactly
\* one and raises ValueError when there are two or more.
C23_FirstReturnsFirstOrDefault ==
    answer.fn = "first" =>
        LET it == call.iterable IN
        /\ (it # <<>> /\ ~call.strict) => answer = Returned("first", Head(it))
        /\ (it = <<>> /\ call.default # Absent /\ ~call.strict)
              => answer = Returned("first", call.default[1])
        /\ (it = <<>> /\ (call.default = Absent \/ call.strict)) => answer.raised
        /\ (call.strict /\ Len(it) = 1) => answer = Returned("first", it[1])
        /\ (call.strict /\ Len(it) >= 2) => answer.raised

\* first was called under strict on an empty iterable with a default, and raised
C23_Witness ==
    /\ answer.fn = "first"
    /\ call.iterable = <<>> /\ call.default # Absent /\ call.strict
    /\ answer.raised

\* the three forms of the name: user/repo, the project's GitHub URL, and that URL
\* with a further subpath
IsFormOf(name, user, repo) ==
    \/ name = ShortForm(user, repo)
    \/ name = UrlForm("https://", <<"github.com">>, user, repo)
    \/ \E sub \in {<<"/", "s">>, <<"/", "s", "/", "t">>} :
          name = UrlForm("https://", <<"github.com">>, user, repo) \o sub

\* nothing is configured under the name, and no other repository under the
\* project's name
Unconfigured(name, user, repo, projects) ==
    /\ name \notin DOMAIN projects
    /\ repo \in DOMAIN projects => projects[repo] = CanonicalUrl(user, repo)

----------------------------------------------------------------------------
(* Claims about the life of a project, checked under SpecLife              *)

\* GitHubProject.needs_install (project.py:760-762): not self.state.get('installed')
needs_install(st) == st.installed = Absent

\* C21: after install() has returned with a selected release, state.installed
\* is the version and date of exactly that release, and needs_install is false.
C21_InstallRecordsRelease ==
    (run.name = "install" /\ ~run.raised /\ run.release # Absent)
        => /\ state.installed = Some(todict(run.release[1]))
           /\ ~needs_install(state)

\* an install that moved the project from the first release to the second
C21_Witness ==
    /\ run.name = "install" /\ ~run.raised
    /\ run.release = Some(Upstream(2))
    /\ Upstream(1).tag_name \in acted
    /\ state.installed = Some(todict(Upstream(2)))

\* C22: an operation that enters the project-directory scope (install,
\* uninstall) leaves the working directory of the process as it was before
\* the operation, whether it returns or raises inside the scope.
C22_WorkingDirectoryRestored ==
    [][(run'.n # run.n /\ run'.name \in {"install", "uninstall"}) => cwd' = cwd]_vars

\* C25: an install() that follows an uninstall() which removed the asset files
\* (keep_assets not set) downloads every configured asset again, also when it
\* is called within the throttle intervals, so that each asset file is there
\* when its actions run. Downloads the server answers with an error are set
\* aside.
C25_InstallAfterUninstallDownloadsAgain ==
    [][(/\ run.name = "uninstall" /\ ~run.arg /\ acted # {}
        /\ fs[AssetFile].kind = "none" /\ fs[TextFile].kind = "none"
        /\ run'.n = run.n + 1 /\ run'.name = "install"
        /\ run'.failed = <<>>)
       => /\ SeqToSet(run'.fetched) = {TgzName, TxtName}
          /\ ~run'.raised]_vars

\* C26: state.installed records a release only if the actions of the release's
\* assets have been run to their end, in this install or an earlier one; an
\* install whose downloads of a new release fail does not record that release.
C26_StampedOnlyAfterActions ==
    \A k \in 1..MaxUpstream :
        state.installed = Some(todict(Upstream(k))) => Upstream(k).tag_name \in acted

\* the assets a run tried to download
Attempted == {s.on : s \in {t \in SeqToSet(run.steps) : t.step = "download"}}

\* C28: download() tries every configured asset of the selected release; a
\* failed download of one asset neither keeps the others from being tried nor
\* raises to the caller; download() returns True exactly when at least one
\* asset was fetched, and every fetched asset file is in the registry.
C28_DownloadTriesEveryAsset ==
    (run.name = "download" /\ run.release # Absent)
        => /\ Attempted = {TgzName, TxtName}
           /\ ~run.raised
           /\ run.ret <=> run.fetched # <<>>
           /\ \A name \in SeqToSet(run.fetched) :
                project_relative_fspath(asset_source(name)) \in Registered

\* the download of the first asset failed, the second asset was fetched
C28_Witness ==
    /\ run.name = "download" /\ run.release # Absent
    /\ run.failed = <<TgzName>> /\ run.fetched = <<TxtName>>
    /\ run.ret

\* the place of a step in an install
Rank(s) ==
    CASE s.step = "update" -> 1
      [] s.step = "download" -> 2
      [] s.step \in {"actions", "rule"} -> 3
      [] s.step = "postinstall" -> 4
      [] s.step = "stamp" -> 5

HasStep(steps, what) == \E i \in DOMAIN steps : steps[i].step = what

----------------------------------------------------------------------------
(* Claims about the install rules, checked under SpecRules                 *)

\* C30: during install every path an action produced that lies in the project
\* directory and matches an install rule has that rule's actions run on it,
\* and so have the paths those actions produce; at the end the worklist is
\* empty: everything produced was examined.
C30_EveryProducedPathExamined ==
    answer.fn = "install"
        => LET v == answer.value[1] IN
           /\ v.examined = v.produced
           /\ \A e \in SeqToSet(v.produced), k \in 1..Len(call.rules) :
                (~e.nested /\ is_in_pd(e.path) /\ fnmatch(fspath(e.path), call.rules[k].pattern))
                    => RuleStep(k, e.path) \in SeqToSet(v.steps)

\* ---------------------------------------------------------------------------
\* Removal: the batches of delete and uninstall

\* the paths a delete or an uninstall that ends as operation o goes through, in
\* the order of the loop, computed on the state before the step
Batch(o) ==
    IF o.name = "delete" THEN safe_candidates(installed_files, fs, o.arg)
    ELSE SelectSeq(sorted_installed(installed_files, fs),
                   LAMBDA p : ~(o.arg # <<>> /\ IsAsset(p)))

Removes(o) == o.name \in {"delete", "uninstall"}

IsRegistered(p, list) == InList(project_relative_fspath(p), list)

\* C33: delete and uninstall go through their batch deepest path first: no path
\* comes before a path of the batch with more components, every entry of the
\* batch beneath a directory of the batch comes before that directory, and so an
\* uninstall removes and unregisters a registered directory whose content is all
\* in the batch.
C33_DeepestFirst ==
    [][Removes(op') =>
        \A b \in {Batch(op')} :
        /\ \A i, j \in 1..Len(b) : i < j => Len(b[i]) >= Len(b[j])
        /\ \A i, j \in 1..Len(b) :
              (is_dir(fs, b[j]) /\ b[i] # b[j] /\ is_relative_to(b[i], b[j])) => i < j
        /\ \A j \in 1..Len(b) :
              (/\ op'.name = "uninstall" /\ op'.arg = <<>>
               /\ fs[Loc(b[j])].kind = "dir"
               /\ \A n \in Nodes :
                     (n # Loc(b[j]) /\ is_relative_to(n, Loc(b[j])) /\ fs[n].kind # "none")
                         => InList(n, b))
                  => /\ fs'[Loc(b[j])].kind = "none"
                     /\ ~IsRegistered(b[j], installed_files')]_vars

\* C33: delete with the recursive pattern was the last operation, the archive held
\* the directory t and the file t/tool, and all of it is gone and unregistered; the
\* dangling link in the bin directory shows that t/tool was there
C33_Witness ==
    /\ op.name = "delete" /\ op.arg = <<"**", "*">>
    /\ archive = <<<<"t">>, <<"t", "tool">>>>
    /\ fs[UnpackedDir].kind = "none" /\ fs[Tool].kind = "none"
    /\ fs[LinkPath].kind = "link"
    /\ installed_files = <<LinkPath>>

\* C34: in delete and in uninstall a path whose removal fails does not end the
\* batch: every file and link of the batch is removed whatever failed before it,
\* a registered path that is still there afterwards is still registered, every
\* path of the batch that is gone afterwards is unregistered, and the operation
\* does not raise.
C34_FailureDoesNotAbortBatch ==
    [][Removes(op') =>
        \A b \in {Batch(op')} :
        /\ \A k \in 1..Len(b) : ~is_dir(fs, b[k]) => Stat(fs', b[k]).kind = "none"
        /\ \A k \in 1..Len(b) :
              (IsRegistered(b[k], installed_files) /\ Stat(fs', b[k]).kind # "none")
                  => IsRegistered(b[k], installed_files')
        /\ \A k \in 1..Len(b) :
              (Stat(fs, b[k]).kind # "none" /\ Stat(fs', b[k]).kind = "none")
                  => ~IsRegistered(b[k], installed_files')
        /\ ~op'.raised]_vars

\* C35: uninstall(keep_assets) leaves every registered asset file on disk and in
\* the registry, removes and unregisters every other registered path, and clears
\* state.installed.
C35_KeepAssetsRemovesTheRest ==
    [][(op'.name = "uninstall" /\ op'.arg = <<"keep_assets">>) =>
        /\ \A k \in 1..Len(installed_files) :
              LET p == resolve_path(installed_files[k]) IN
              IF IsAsset(p)
              THEN /\ Stat(fs', p) = Stat(fs, p)
                   /\ InList(installed_files[k], installed_files')
              ELSE /\ Stat(fs', p).kind = "none"
                   /\ ~InList(installed_files[k], installed_files')
        /\ installed' = FALSE]_vars

\* C37: a delete whose pattern expands to the link the project registered in the
\* bin directory removes the link and unregisters it.
C37_DeleteRemovesRegisteredOutside ==
    [][(/\ op'.name = "delete" /\ op'.arg = <<"/", "bin", "*">>
        /\ fs[LinkPath].kind = "link" /\ IsRegistered(LinkPath, installed_files))
          => (fs'[LinkPath].kind = "none" /\ ~IsRegistered(LinkPath, installed_files'))]_vars

\* ---------------------------------------------------------------------------
\* The install rules: record, and paths outside the project directory

\* the rules of the call that ran record
RecordRan ==
    {k \in 1..Len(call.rules) :
        /\ call.rules[k].spec = "record"
        /\ \E s \in SeqToSet(answer.value[1].steps) : s.rule = k}

\* C36: an install in which a rule ran record ends without an exception, what
\* record found is registered, and every entry put on the worklist is a single
\* path.
C36_RecordFeedsWorklist ==
    (answer.fn = "install" /\ RecordRan # {})
        => /\ ~answer.raised
           /\ \A e \in SeqToSet(answer.value[1].produced) : ~e.nested
           /\ (fs[Tool].kind # "none" => InList(relative_to(Tool, PD), installed_files))

\* the source of a step as an absolute path
AbsoluteSource(s) == IF Head(s) = "/" THEN s ELSE PD \o s

ActionRank(a) ==
    CHOOSE k \in 1..5 : <<"unpack", "bin", "link", "delete", "record">>[k] = a

KnownNames(names) ==
    SeqToSet(names) \cap {"unpack", "bin", "link", "delete", "record"}

\* C38: the actions a spec names are called in the order unpack, bin, link,
\* delete, record, whatever the order of the names in the list or mapping, and
\* each known action that is named is called exactly once: with unpack and delete
\* named, the members are extracted before the source is deleted.
C38_ActionsInFixedOrder ==
    answer.fn = "run_actions"
        => \A ran \in {answer.value[1]} :
            /\ \A i, j \in 1..Len(ran) : i < j => ActionRank(ran[i]) < ActionRank(ran[j])
            /\ KnownNames(call.spec.names) # {}
                  => /\ ~answer.raised
                     /\ SeqToSet(ran) = KnownNames(call.spec.names)
                     /\ Len(ran) = Cardinality(KnownNames(call.spec.names))
            /\ (op.name = "run_actions" /\ {"unpack", "delete"} \subseteq SeqToSet(ran))
                  => /\ \A k \in 1..Len(archive) : fs[PD \o archive[k]].kind # "none"
                     /\ fs[AssetFile].kind = "none"

\* C38: a list that names delete, unpack and delete again has run: unpack was
\* called first, delete once after it, the members are there and the source is not
C38_Witness ==
    /\ op.name = "run_actions"
    /\ call.spec = [shape |-> "list", names |-> <<"delete", "unpack", "delete">>]
    /\ answer.value[1] = <<"unpack", "delete">>
    /\ fs[AssetFile].kind = "none"
    /\ \A k \in 1..Len(archive) : fs[PD \o archive[k]].kind # "none"

\* ---------------------------------------------------------------------------
\* unpack of a tar archive

SafeNames(members) ==
    [k \in 1..Len(safe_members(members)) |-> safe_members(members)[k].name]

\* C32: unpack of a tar archive extracts no member with an absolute name or a
\* '..' in its name, extracts every other member, ends without an exception, and
\* returns and registers exactly the safe members, each by its path relative to
\* the project directory.
C32_UnpackSkipsUnsafeMembers ==
    answer.fn = "unpack"
        => /\ \A k \in 1..Len(call.members) :
                 ~is_safe_member(call.members[k])
                     => fs[Loc(joined(PD, call.members[k].name))].kind = "none"
           /\ \A k \in 1..Len(SafeNames(call.members)) :
                 fs[PD \o SafeNames(call.members)[k]].kind # "none"
           /\ ~answer.raised
           /\ answer.value[1] = SafeNames(call.members)
           /\ installed_files = <<relative_to(AssetFile, PD)>> \o SafeNames(call.members)

\* ---------------------------------------------------------------------------
\* Termination of install

Ended == answer.fn = "install"

\* a rule of the configuration puts its link into the project directory at a
\* path its own pattern matches
SelfRule(rules) ==
    \E k \in 1..Len(rules) :
        is_in_pd(rules[k].link) /\ fnmatch(fspath(rules[k].link), rules[k].pattern)

\* no rule puts its link at a path of the project directory that the pattern of
\* any rule, its own or another's, matches
NoFeedback(rules) ==
    \A j, k \in 1..Len(rules) :
        ~(is_in_pd(rules[j].link) /\ fnmatch(fspath(rules[j].link), rules[k].pattern))

C40_SerializedResolvesInOwnDirectory ==
    scope.serialized
        => \A i \in 1..2 :
              scope.at[i].resolved # <<>>
                  => is_relative_to(scope.at[i].resolved, ProjectDir(i))

\* C40: the operations interleave, and the first project, still in its with
\* block, has resolved its relative path against the directory of the second
C40_Witness ==
    /\ ~scope.serialized
    /\ scope.at[1].pc = "in" /\ scope.at[2].pc = "in"
    /\ scope.at[1].resolved = ProjectDir(2) \o <<"t", "tool">>

====
